---------------------------- MODULE Spec2Model ----------------------------
(***************************************************************************)
(* The dialog transaction engine of the flight booking assistant:          *)
(* the session controller (main.py), the transaction base class and its    *)
(* authentication sub-flow (transactions/transaction.py, auth_flow.py),    *)
(* the booking state machine (transactions/booking.py), the factory, and   *)
(* the collaborators' contracts as the engine uses them.                   *)
(*                                                                         *)
(* Text is a sequence of one-character strings, so that lower(), upper(),  *)
(* strip(), substring tests, strptime and int() are computed, not assumed. *)
(* A nullable Python value is a sequence of length 0 (None) or 1.          *)
(***************************************************************************)
EXTENDS Integers, Sequences, FiniteSets, TLC

(***************************************************************************)
(* Text                                                                    *)
(***************************************************************************)
None == <<>>
Some(x) == <<x>>
Val(o) == o[1]

\* `name = value` followed by the code that uses name: value is computed
\* once and F is applied to it.
Bind(value, F(_)) == CHOOSE y \in {F(x) : x \in {value}} : TRUE

UpperAlphabet == <<"A","B","C","D","E","F","G","H","I","J","K","L","M","N","O","P","Q","R","S","T","U","V","W","X","Y","Z">>
LowerAlphabet == <<"a","b","c","d","e","f","g","h","i","j","k","l","m","n","o","p","q","r","s","t","u","v","w","x","y","z">>
Digits == <<"0","1","2","3","4","5","6","7","8","9">>

Range(f) == {f[i] : i \in DOMAIN f}

ToLower ==
  [c \in Range(UpperAlphabet) |->
     LowerAlphabet[CHOOSE i \in DOMAIN UpperAlphabet : UpperAlphabet[i] = c]]

ToUpper ==
  [c \in Range(LowerAlphabet) |->
     UpperAlphabet[CHOOSE i \in DOMAIN LowerAlphabet : LowerAlphabet[i] = c]]

DigitValue ==
  [c \in Range(Digits) |-> (CHOOSE i \in DOMAIN Digits : Digits[i] = c) - 1]

\* str.lower() and str.upper(), character by character
str_lower(s) ==
  [i \in DOMAIN s |-> IF s[i] \in DOMAIN ToLower THEN ToLower[s[i]] ELSE s[i]]

str_upper(s) ==
  [i \in DOMAIN s |-> IF s[i] \in DOMAIN ToUpper THEN ToUpper[s[i]] ELSE s[i]]

\* str.strip(): leading and trailing blanks removed
str_strip(s) ==
  LET inked == {i \in DOMAIN s : s[i] # " "}
  IN  IF inked = {} THEN <<>>
      ELSE SubSeq(s, CHOOSE i \in inked : \A j \in inked : i <= j,
                     CHOOSE i \in inked : \A j \in inked : i >= j)

\* `sub in s`
str_contains(s, sub) ==
  \E i \in 1..(Len(s) - Len(sub) + 1) : SubSeq(s, i, i + Len(sub) - 1) = sub

IsDigit(c) == c \in DOMAIN DigitValue
DigitVal(c) == DigitValue[c]

RECURSIVE DigitsVal(_)
DigitsVal(s) ==
  IF Len(s) = 0 THEN 0
  ELSE 10 * DigitsVal(SubSeq(s, 1, Len(s) - 1)) + DigitVal(s[Len(s)])

AllDigits(s) == Len(s) > 0 /\ \A i \in DOMAIN s : IsDigit(s[i])

\* int(message): an optional sign and decimal digits; anything else is a
\* ValueError (ok = FALSE).
int_of(s) ==
  LET signed == Len(s) > 0 /\ s[1] \in {"+", "-"}
      body   == IF signed THEN SubSeq(s, 2, Len(s)) ELSE s
  IN  IF AllDigits(body)
        THEN [ok |-> TRUE,
              val |-> IF signed /\ s[1] = "-" THEN 0 - DigitsVal(body)
                      ELSE DigitsVal(body)]
        ELSE [ok |-> FALSE, val |-> 0]

(***************************************************************************)
(* Dates: <<year, month, day>>, ordered as datetime.date orders them.      *)
(***************************************************************************)
IsLeap(y) == (y % 4 = 0 /\ y % 100 # 0) \/ y % 400 = 0

DaysInMonth(y, m) ==
  IF m = 2 THEN (IF IsLeap(y) THEN 29 ELSE 28)
  ELSE IF m \in {4, 6, 9, 11} THEN 30 ELSE 31

date_lt(a, b) ==
  \/ a[1] < b[1]
  \/ a[1] = b[1] /\ a[2] < b[2]
  \/ a[1] = b[1] /\ a[2] = b[2] /\ a[3] < b[3]

\* The positions of "-" in s
Dashes(s) == {i \in DOMAIN s : s[i] = "-"}

\* %m : 1[0-2] | 0[1-9] | [1-9]
MonthField(f) ==
  /\ AllDigits(f)
  /\ Len(f) \in {1, 2}
  /\ DigitsVal(f) \in 1..12

\* %d : 3[01] | [12]\d | 0[1-9] | [1-9] | " "[1-9]
DayField(f) ==
  \/ AllDigits(f) /\ Len(f) \in {1, 2} /\ DigitsVal(f) \in 1..31
  \/ Len(f) = 2 /\ f[1] = " " /\ IsDigit(f[2]) /\ DigitVal(f[2]) \in 1..9

DayVal(f) == IF f[1] = " " THEN DigitVal(f[2]) ELSE DigitsVal(f)

\* datetime.strptime(message, "%Y-%m-%d").date(): the whole text must match
\* four digits, "-", a month of one or two digits, "-", a day of one or two
\* digits, and name a day of the calendar (year 1 at least); anything else
\* is a ValueError (ok = FALSE).
strptime(s) ==
  LET bad == [ok |-> FALSE, date |-> <<0, 0, 0>>]
  IN  IF Cardinality(Dashes(s)) # 2 THEN bad
      ELSE
        LET d1 == CHOOSE i \in Dashes(s) : \A j \in Dashes(s) : i <= j
            d2 == CHOOSE i \in Dashes(s) : \A j \in Dashes(s) : i >= j
            yf == SubSeq(s, 1, d1 - 1)
            mf == SubSeq(s, d1 + 1, d2 - 1)
            df == SubSeq(s, d2 + 1, Len(s))
        IN  IF /\ Len(yf) = 4
               /\ AllDigits(yf)
               /\ Len(mf) > 0
               /\ MonthField(mf)
               /\ Len(df) > 0
               /\ DayField(df)
              THEN
                LET y == DigitsVal(yf)
                    m == DigitsVal(mf)
                    d == DayVal(df)
                IN  IF y >= 1 /\ d <= DaysInMonth(y, m)
                      THEN [ok |-> TRUE, date |-> <<y, m, d>>]
                      ELSE bad
              ELSE bad

(***************************************************************************)
(* Bounds of the model                                                     *)
(***************************************************************************)
\* The flights of the database that one search can match.
NumFlights == 6

(***************************************************************************)
(* Responses: the lines of the text, and the values rendered into it.      *)
(***************************************************************************)
Resp(text) == [text |-> text, data |-> <<>>]
RespWith(text, data) == [text |-> text, data |-> data]

\* `if auth_response:` - None and the empty string are false
Truthy(r) == r # None /\ Val(r).text # <<>> /\ Val(r).text # <<"">>

(***************************************************************************)
(* intent_classifier.py                                                    *)
(***************************************************************************)
\* The class labels of the trained model.
ModelClasses == {"booking", "status", "confirmation", "cancellation", "greeting"}

\* max(pred_proba), in hundredths
ConfidenceLevels == {40, 41}

\* `if max_confidence > 0.4`, in hundredths
ConfidenceThreshold == 40

\* What one call of the pipeline can give: no usable model (ValueError), or
\* the most probable class and its probability.
PredictOutcomes ==
  {[has_pipeline |-> FALSE, raw_class |-> "booking", max_confidence |-> 0]}
  \cup [has_pipeline : {TRUE}, raw_class : ModelClasses,
        max_confidence : ConfidenceLevels]

\* A decision rule that lets a probability equal to the threshold through
IntentClassifier_predict_inclusive(outcome) ==
  IF ~outcome.has_pipeline
    THEN [raised |-> TRUE, label |-> ""]
    ELSE IF outcome.max_confidence >= ConfidenceThreshold
           THEN [raised |-> FALSE, label |-> outcome.raw_class]
           ELSE [raised |-> FALSE, label |-> "unknown"]

\* IntentClassifier.predict
IntentClassifier_predict(outcome) ==
  IF ~outcome.has_pipeline
    THEN [raised |-> TRUE, label |-> ""]
    ELSE IF outcome.max_confidence > ConfidenceThreshold
           THEN [raised |-> FALSE, label |-> outcome.raw_class]
           ELSE [raised |-> FALSE, label |-> "unknown"]

(***************************************************************************)
(* services/auth.py and the User table                                     *)
(***************************************************************************)
\* Auth._hash_password: SHA-256, a function of the password alone
_hash_password(password) == <<"sha256", password>>

Auth_new == [current_user |-> None]

\* Auth.is_authenticated
is_authenticated(auth) == auth.current_user # None

UsersWithEmail(users, email) == {i \in DOMAIN users : users[i].email = email}

\* Auth.login: User.DoesNotExist and a wrong password end in (False, msg);
\* any other database error is not caught.
Auth_login(auth, users, email, password, db_error) ==
  LET invalid == [raised |-> FALSE, ok |-> FALSE,
                  msg |-> "Invalid email or password", auth |-> auth]
  IN  IF db_error
        THEN [raised |-> TRUE, ok |-> FALSE, msg |-> "", auth |-> auth]
      ELSE IF UsersWithEmail(users, email) = {} THEN invalid
      ELSE LET user == users[CHOOSE i \in UsersWithEmail(users, email) : TRUE]
           IN  IF user.password = _hash_password(password)
                 THEN [raised |-> FALSE, ok |-> TRUE, msg |-> "Login successful",
                       auth |-> [auth EXCEPT !.current_user = Some(user)]]
                 ELSE invalid

\* Auth.register: every exception is caught and reported as a failure.
Auth_register(auth, users, name, email, password, db_error) ==
  IF db_error
    THEN [ok |-> FALSE, msg |-> "Registration failed", auth |-> auth,
          users |-> users]
  ELSE IF UsersWithEmail(users, email) # {}
    THEN [ok |-> FALSE, msg |-> "Email already registered", auth |-> auth,
          users |-> users]
  ELSE LET user == [id |-> Len(users) + 1, name |-> name, email |-> email,
                    password |-> _hash_password(password)]
       IN  [ok |-> TRUE, msg |-> "Registration successful",
            auth |-> [auth EXCEPT !.current_user = Some(user)],
            users |-> Append(users, user)]

(***************************************************************************)
(* transactions/auth_flow.py                                               *)
(***************************************************************************)
AuthFlow_new ==
  [state |-> "INIT",
   context |-> [action |-> None, email |-> None, password |-> None,
                name |-> None]]

\* Every result of the sub-flow: the flow, the auth service and the User
\* table after the call, the response, whether an exception left the call,
\* and the collaborator calls made (ev).
AuthResult(af, auth, users, resp, ev) ==
  [af |-> af, auth |-> auth, users |-> users, resp |-> resp,
   raised |-> FALSE, ev |-> ev]

AuthFlow_handle_init(af, auth, users, message) ==
  IF \/ str_contains(str_lower(message), <<"r","e","g","i","s","t","e","r">>)
     \/ str_contains(str_lower(message), <<"s","i","g","n"," ","u","p">>)
    THEN AuthResult([af EXCEPT !.context.action = Some("register"),
                               !.state = "AWAITING_EMAIL"],
                    auth, users,
                    Resp(<<"Let's create an account. Please enter your email:">>),
                    {"auth_init"})
    ELSE AuthResult([af EXCEPT !.context.action = Some("login"),
                               !.state = "AWAITING_EMAIL"],
                    auth, users,
                    Resp(<<"Please enter your email to login:">>),
                    {"auth_init"})

AuthFlow_handle_email(af, auth, users, message) ==
  AuthResult([af EXCEPT !.context.email = Some(message),
                        !.state = "AWAITING_PASSWORD"],
             auth, users, Resp(<<"Please enter your password:">>),
             {"auth_email"})

\* An AWAITING_PASSWORD handler that asks for a name after a failed login
AuthFlow_handle_password_named(af, auth, users, message, db_error) ==
  LET af1 == [af EXCEPT !.context.password = Some(message)]
  IN  IF af1.context.action = Some("login")
        THEN Bind(Auth_login(auth, users, Val(af1.context.email),
                             Val(af1.context.password), db_error),
                  LAMBDA r :
                 IF r.raised
                   THEN [af |-> af1, auth |-> auth, users |-> users,
                         resp |-> Resp(<<>>), raised |-> TRUE,
                         ev |-> {"auth_password", "login"}]
                 ELSE IF r.ok
                   THEN AuthResult([af1 EXCEPT !.state = "COMPLETE"], r.auth,
                                   users,
                                   Resp(<<r.msg, "Now, let's continue with your booking.">>),
                                   {"auth_password", "login", "login_ok"})
                 ELSE AuthResult([af1 EXCEPT !.state = "AWAITING_NAME"],
                                 r.auth, users,
                                 Resp(<<r.msg, "Please enter your name:">>),
                                 {"auth_password", "login", "login_failed"}))
        ELSE AuthResult([af1 EXCEPT !.state = "AWAITING_NAME"], auth, users,
                        Resp(<<"Please enter your name:">>), {"auth_password"})

AuthFlow_handle_password(af, auth, users, message, db_error) ==
  LET af1 == [af EXCEPT !.context.password = Some(message)]
  IN  IF af1.context.action = Some("login")
        THEN Bind(Auth_login(auth, users, Val(af1.context.email),
                             Val(af1.context.password), db_error),
                  LAMBDA r :
                 IF r.raised
                   THEN [af |-> af1, auth |-> auth, users |-> users,
                         resp |-> Resp(<<>>), raised |-> TRUE,
                         ev |-> {"auth_password", "login"}]
                 ELSE IF r.ok
                   THEN AuthResult([af1 EXCEPT !.state = "COMPLETE"], r.auth,
                                   users,
                                   Resp(<<r.msg, "Now, let's continue with your booking.">>),
                                   {"auth_password", "login", "login_ok"})
                 ELSE AuthResult(af1, r.auth, users,
                                 Resp(<<r.msg, "Please try again with your email:">>),
                                 {"auth_password", "login", "login_failed"}))
        ELSE AuthResult([af1 EXCEPT !.state = "AWAITING_NAME"], auth, users,
                        Resp(<<"Please enter your name:">>), {"auth_password"})

\* An AWAITING_NAME handler that asks for the name again after a failure
AuthFlow_handle_name_again(af, auth, users, message, db_error) ==
  LET af1 == [af EXCEPT !.context.name = Some(message)]
  IN  Bind(Auth_register(auth, users, Val(af1.context.name),
                         Val(af1.context.email), Val(af1.context.password),
                         db_error),
           LAMBDA r :
      IF r.ok
        THEN AuthResult([af1 EXCEPT !.state = "COMPLETE"], r.auth, r.users,
                        Resp(<<r.msg, "Now, let's continue with your booking.">>),
                        {"auth_name", "register", "register_ok"})
        ELSE AuthResult(af1, r.auth, r.users,
                        Resp(<<r.msg, "Please try again with your email:">>),
                        {"auth_name", "register", "register_failed"}))

AuthFlow_handle_name(af, auth, users, message, db_error) ==
  LET af1 == [af EXCEPT !.context.name = Some(message)]
  IN  Bind(Auth_register(auth, users, Val(af1.context.name),
                         Val(af1.context.email), Val(af1.context.password),
                         db_error),
           LAMBDA r :
      IF r.ok
        THEN AuthResult([af1 EXCEPT !.state = "COMPLETE"], r.auth, r.users,
                        Resp(<<r.msg, "Now, let's continue with your booking.">>),
                        {"auth_name", "register", "register_ok"})
        ELSE AuthResult([af1 EXCEPT !.state = "AWAITING_EMAIL"], r.auth, r.users,
                        Resp(<<r.msg, "Please try again with your email:">>),
                        {"auth_name", "register", "register_failed"}))

\* AuthFlow.process
AuthFlow_process(af, auth, users, message, db_error) ==
  IF af.state = "INIT" THEN AuthFlow_handle_init(af, auth, users, message)
  ELSE IF af.state = "AWAITING_EMAIL"
    THEN AuthFlow_handle_email(af, auth, users, message)
  ELSE IF af.state = "AWAITING_PASSWORD"
    THEN AuthFlow_handle_password(af, auth, users, message, db_error)
  ELSE IF af.state = "AWAITING_NAME"
    THEN AuthFlow_handle_name(af, auth, users, message, db_error)
  ELSE AuthResult(af, auth, users,
                  Resp(<<"An error occurred in authentication.">>), {})

\* A sub-flow that never reports completion
AuthFlow_is_complete_never(af) == FALSE

\* AuthFlow.is_complete
AuthFlow_is_complete(af) == af.state = "COMPLETE"

(***************************************************************************)
(* services/flight.py                                                      *)
(***************************************************************************)
\* Rates.TRIP_TYPE_RATES and Rates.CLASS_RATES, in tenths
TRIP_TYPE_RATES(trip_type) == IF trip_type = "ROUNDTRIP" THEN 9 ELSE 10

CLASS_RATES(class) ==
  IF class = <<"F","I","R","S","T">> THEN 25
  ELSE IF class = <<"B","U","S","I","N","E","S","S">> THEN 18
  ELSE 10

\* round(x, 2) of a Decimal: half to even. x is in hundredths of a penny,
\* the result in pence.
round2(x) ==
  LET q == x \div 100
      r == x % 100
  IN  IF r > 50 \/ (r = 50 /\ q % 2 = 1) THEN q + 1 ELSE q

\* Trip._calculate_base_trip_price, in tenths of a penny
_calculate_base_trip_price(trip) ==
  LET total_base ==
        IF trip.trip_type = "ROUNDTRIP" /\ trip.return_flight # None
          THEN trip.outbound_flight.base_price
               + Val(trip.return_flight).base_price
          ELSE trip.outbound_flight.base_price
  IN  total_base * TRIP_TYPE_RATES(trip.trip_type)

\* Trip.get_first_class_price, get_business_class_price,
\* get_economy_class_price: the price in pence
get_class_price(trip, class) ==
  round2(_calculate_base_trip_price(trip) * CLASS_RATES(class))

VALID_CLASSES ==
  {<<"F","I","R","S","T">>, <<"B","U","S","I","N","E","S","S">>,
   <<"E","C","O","N","O","M","Y">>}

\* A price table that quotes the economy price for every class
get_all_class_prices_economy(trip) ==
  [c \in VALID_CLASSES |-> get_class_price(trip, <<"E","C","O","N","O","M","Y">>)]

\* Trip.get_all_class_prices
get_all_class_prices(trip) == [c \in VALID_CLASSES |-> get_class_price(trip, c)]

\* The Flight table, in the order of the search's ORDER BY: the i-th match
\* and the return flight that pairs with it. Prices in pence.
OutboundFlight(i) == [id |-> i, base_price |-> 5000 + 1111 * i]
ReturnFlight(i) == [id |-> 100 + i, base_price |-> 4005 + 1111 * i]

\* What the database gives one search: an error, or the number of matching
\* outbound flights and the matches for which a return flight exists.
SearchOutcomes ==
  {[db_error |-> TRUE, found |-> 0, with_return |-> {}]}
  \cup [db_error : {FALSE}, found : {0, 1, 2, NumFlights},
        with_return : {1..NumFlights, {2}}]

Min(a, b) == IF a < b THEN a ELSE b

\* A search that ignores the limit
search_flights_unlimited(origin, destination, outbound_date, return_date, limit, outcome) ==
  IF outcome.db_error THEN [raised |-> TRUE, trips |-> <<>>]
  ELSE
    LET outbound_flights == [i \in 1..outcome.found |-> OutboundFlight(i)]
    IN  IF return_date = None
          THEN [raised |-> FALSE,
                trips |-> [i \in DOMAIN outbound_flights |->
                             [trip_type |-> "ONEWAY",
                              outbound_flight |-> outbound_flights[i],
                              return_flight |-> None]]]
          ELSE
            LET HasReturn(f) == f.id \in outcome.with_return
                paired == SelectSeq(outbound_flights, HasReturn)
            IN  [raised |-> FALSE,
                 trips |-> [i \in DOMAIN paired |->
                              [trip_type |-> "ROUNDTRIP",
                               outbound_flight |-> paired[i],
                               return_flight |-> Some(ReturnFlight(paired[i].id))]]]

\* FlightService.search_flights. The matches are in nearest-date order
\* already; sorted() is stable and keeps it.
search_flights(origin, destination, outbound_date, return_date, limit, outcome) ==
  IF outcome.db_error THEN [raised |-> TRUE, trips |-> <<>>]
  ELSE
    LET outbound_flights ==
          [i \in 1..Min(outcome.found, limit) |-> OutboundFlight(i)]
    IN  IF return_date = None
          THEN [raised |-> FALSE,
                trips |-> [i \in DOMAIN outbound_flights |->
                             [trip_type |-> "ONEWAY",
                              outbound_flight |-> outbound_flights[i],
                              return_flight |-> None]]]
          ELSE
            LET HasReturn(f) == f.id \in outcome.with_return
                paired == SelectSeq(outbound_flights, HasReturn)
                trips  == [i \in DOMAIN paired |->
                             [trip_type |-> "ROUNDTRIP",
                              outbound_flight |-> paired[i],
                              return_flight |-> Some(ReturnFlight(paired[i].id))]]
            IN  [raised |-> FALSE,
                 trips |-> SubSeq(trips, 1, Min(Len(trips), limit))]

(***************************************************************************)
(* services/booking.py                                                     *)
(***************************************************************************)
\* What the database gives one create: an error, or the reference of the
\* stored booking.
CreateOutcomes ==
  {[db_error |-> TRUE, reference |-> ""],
   [db_error |-> FALSE, reference |-> "K7Q2ZD"]}

\* BookingService._calculate_total_amount
_calculate_total_amount(trip, travel_class) ==
  IF travel_class = <<"F","I","R","S","T">>
    THEN get_class_price(trip, <<"F","I","R","S","T">>)
  ELSE IF travel_class = <<"B","U","S","I","N","E","S","S">>
    THEN get_class_price(trip, <<"B","U","S","I","N","E","S","S">>)
  ELSE get_class_price(trip, <<"E","C","O","N","O","M","Y">>)

\* BookingService.create_booking
create_booking(trip, user_id, travel_class, outcome) ==
  IF travel_class \notin VALID_CLASSES \/ outcome.db_error
    THEN [raised |-> TRUE, booking |-> None]
    ELSE [raised |-> FALSE,
          booking |-> Some([reference |-> outcome.reference,
                            trip_type |-> trip.trip_type,
                            outbound_flight_id |-> trip.outbound_flight.id,
                            travel_class |-> travel_class,
                            user_id |-> user_id,
                            total_amount |->
                              _calculate_total_amount(trip, travel_class)])]

(***************************************************************************)
(* transactions/booking.py                                                 *)
(***************************************************************************)
\* date.today()
Today == <<2030, 6, 15>>

MAX_FLIGHTS == 5

\* BookingTransaction.__init__ (with BaseTransaction.__init__)
BookingTransaction_new ==
  [kind |-> "booking",
   state |-> "INIT",
   context |-> [origin |-> None, destination |-> None,
                outbound_date |-> None, return_date |-> None,
                travel_class |-> None, trip_type |-> None,
                available_trips |-> <<>>, selected_trip |-> None,
                price |-> None],
   auth_flow |-> None,
   paused_for_auth |-> FALSE]

\* A transaction that never asks for authentication
requires_auth_never(b) == FALSE

\* A transaction that asks for authentication from its first message
requires_auth_always(b) == TRUE

\* BookingTransaction.requires_auth
requires_auth(b) == b.state = "CONFIRMATION"

\* A transaction that never reports completion
is_complete_never(b) == FALSE

\* BookingTransaction.is_complete
is_complete(b) == b.state = "COMPLETE"

\* Every result of a state handler: the transaction after the call, the
\* response, whether an exception left the handler, the collaborator calls
\* made (ev) and the booking record created, if any.
Handled(b, resp, ev) ==
  [b |-> b, resp |-> resp, raised |-> FALSE, ev |-> ev, created |-> None]

Raised(b, ev) ==
  [b |-> b, resp |-> Resp(<<>>), raised |-> TRUE, ev |-> ev \cup {"exception"},
   created |-> None]

\* An INIT handler that takes every booking for a one-way trip
_handle_init_oneway(b, message) ==
  Handled([b EXCEPT !.context.trip_type = Some("ONEWAY"), !.state = "ORIGIN"],
          Resp(<<"Please enter your departure city:">>), {"_handle_init"})

_handle_init(b, message) ==
  Handled([b EXCEPT !.context.trip_type =
                      IF str_contains(str_lower(message), <<"r","o","u","n","d">>)
                        THEN Some("ROUNDTRIP") ELSE Some("ONEWAY"),
                    !.state = "ORIGIN"],
          Resp(<<"Please enter your departure city:">>), {"_handle_init"})

_handle_origin(b, message) ==
  Handled([b EXCEPT !.context.origin = Some(message),
                    !.state = "DESTINATION"],
          Resp(<<"Please enter your destination city:">>), {"_handle_origin"})

_handle_destination(b, message) ==
  Handled([b EXCEPT !.context.destination = Some(message),
                    !.state = "OUTBOUND_DATE"],
          Resp(<<"Please enter your outbound date (YYYY-MM-DD):">>),
          {"_handle_destination"})

\* An OUTBOUND_DATE handler without the comparison with today
_handle_outbound_date_any_day(b, message) ==
  Bind(strptime(message), LAMBDA parsed :
      IF ~parsed.ok
        THEN Handled(b, Resp(<<"Invalid date format. Please use YYYY-MM-DD format:">>),
                     {"_handle_outbound_date"})
      ELSE Handled([b EXCEPT !.context.outbound_date = Some(parsed.date),
                             !.state = IF b.context.trip_type = Some("ROUNDTRIP")
                                         THEN "RETURN_DATE" ELSE "TRAVEL_CLASS"],
                   Resp(<<"Please select your travel class (ECONOMY/BUSINESS/FIRST):">>),
                   {"_handle_outbound_date"}))

_handle_outbound_date(b, message) ==
  Bind(strptime(message), LAMBDA parsed :
      IF ~parsed.ok
        THEN Handled(b, Resp(<<"Invalid date format. Please use YYYY-MM-DD format:">>),
                     {"_handle_outbound_date"})
      ELSE IF date_lt(parsed.date, Today)
        THEN Handled(b, Resp(<<"Date cannot be in the past. Please enter a future date (YYYY-MM-DD):">>),
                     {"_handle_outbound_date"})
      ELSE IF b.context.trip_type = Some("ROUNDTRIP")
        THEN Handled([b EXCEPT !.context.outbound_date = Some(parsed.date),
                               !.state = "RETURN_DATE"],
                     Resp(<<"Please enter your return date (YYYY-MM-DD):">>),
                     {"_handle_outbound_date"})
      ELSE Handled([b EXCEPT !.context.outbound_date = Some(parsed.date),
                             !.state = "TRAVEL_CLASS"],
                   Resp(<<"Please select your travel class (ECONOMY/BUSINESS/FIRST):">>),
                   {"_handle_outbound_date"}))

\* A RETURN_DATE handler that refuses a return on the outbound day
_handle_return_date_later(b, message) ==
  Bind(strptime(message), LAMBDA parsed :
      IF ~parsed.ok
        THEN Handled(b, Resp(<<"Invalid date format. Please use YYYY-MM-DD format:">>),
                     {"_handle_return_date"})
      ELSE IF ~date_lt(Val(b.context.outbound_date), parsed.date)
        THEN Handled(b, Resp(<<"Return date must be after outbound date. Please enter a valid date (YYYY-MM-DD):">>),
                     {"_handle_return_date"})
      ELSE Handled([b EXCEPT !.context.return_date = Some(parsed.date),
                             !.state = "TRAVEL_CLASS"],
                   Resp(<<"Please select your travel class (ECONOMY/BUSINESS/FIRST):">>),
                   {"_handle_return_date"}))

_handle_return_date(b, message) ==
  Bind(strptime(message), LAMBDA parsed :
      IF ~parsed.ok
        THEN Handled(b, Resp(<<"Invalid date format. Please use YYYY-MM-DD format:">>),
                     {"_handle_return_date"})
      ELSE IF date_lt(parsed.date, Val(b.context.outbound_date))
        THEN Handled(b, Resp(<<"Return date must be after outbound date. Please enter a valid date (YYYY-MM-DD):">>),
                     {"_handle_return_date"})
      ELSE Handled([b EXCEPT !.context.return_date = Some(parsed.date),
                             !.state = "TRAVEL_CLASS"],
                   Resp(<<"Please select your travel class (ECONOMY/BUSINESS/FIRST):">>),
                   {"_handle_return_date"}))

\* BookingTransaction._format_flight_table: one row per trip; the columns
\* are those of the one-way table or of the round-trip table.
_format_flight_table(b, trips, travel_class) ==
  [columns |-> IF b.context.trip_type = Some("ONEWAY")
                 THEN <<"Option", "Departure", "Arrival", "Date", "Time", "Price">>
                 ELSE <<"Option", "Outbound", "Return", "Out Date", "Ret Date", "Price">>,
   rows |-> [idx \in DOMAIN trips |->
               [option |-> idx,
                flight |-> trips[idx].outbound_flight.id,
                price |-> get_all_class_prices(trips[idx])[travel_class]]]]

\* A TRAVEL_CLASS handler that compares the message as typed
_handle_travel_class_exact(b, message, search) ==
  IF message \notin VALID_CLASSES
    THEN Handled(b, Resp(<<"Invalid travel class. Please select ECONOMY, BUSINESS, or FIRST:">>),
                 {"_handle_travel_class"})
  ELSE
    Bind(search_flights(Val(b.context.origin), Val(b.context.destination),
                        Val(b.context.outbound_date), b.context.return_date,
                        MAX_FLIGHTS, search),
         LAMBDA found :
        IF found.raised
          THEN Handled([b EXCEPT !.state = "COMPLETE"],
                       Resp(<<"Sorry, we encountered an error while searching flights. Please start a new booking.">>),
                       {"_handle_travel_class", "search", "search_error"})
        ELSE IF found.trips = <<>>
          THEN Handled([b EXCEPT !.state = "COMPLETE"],
                       Resp(<<"Sorry, no flights found for your criteria. Please start a new booking.">>),
                       {"_handle_travel_class", "search"})
        ELSE
          LET b1 == [b EXCEPT !.context.travel_class = Some(message),
                              !.context.available_trips = found.trips]
          IN  Handled([b1 EXCEPT !.state = "FLIGHT_SELECTION"],
                      RespWith(<<"Here are the available flights:", "",
                                 "Please select a flight by entering its number (1-N):">>,
                               [table |-> _format_flight_table(b1, found.trips, message),
                                N |-> Len(found.trips)]),
                      {"_handle_travel_class", "search"}))

\* A TRAVEL_CLASS handler that asks again when the search finds nothing
_handle_travel_class_retry(b, message, search) ==
  LET travel_class == str_upper(message)
  IN  IF travel_class \notin VALID_CLASSES
        THEN Handled(b, Resp(<<"Invalid travel class. Please select ECONOMY, BUSINESS, or FIRST:">>),
                     {"_handle_travel_class"})
      ELSE
        Bind(search_flights(Val(b.context.origin),
                            Val(b.context.destination),
                            Val(b.context.outbound_date),
                            b.context.return_date, MAX_FLIGHTS, search),
             LAMBDA found :
            IF found.raised
              THEN Handled([b EXCEPT !.state = "COMPLETE"],
                           Resp(<<"Sorry, we encountered an error while searching flights. Please start a new booking.">>),
                           {"_handle_travel_class", "search", "search_error"})
            ELSE IF found.trips = <<>>
              THEN Handled(b, Resp(<<"Sorry, no flights found for your criteria. Please start a new booking.">>),
                           {"_handle_travel_class", "search"})
            ELSE
              LET b1 == [b EXCEPT !.context.travel_class = Some(travel_class),
                                  !.context.available_trips = found.trips]
              IN  Handled([b1 EXCEPT !.state = "FLIGHT_SELECTION"],
                          RespWith(<<"Here are the available flights:", "",
                                     "Please select a flight by entering its number (1-N):">>,
                                   [table |-> _format_flight_table(b1, found.trips, travel_class),
                                    N |-> Len(found.trips)]),
                          {"_handle_travel_class", "search"}))

_handle_travel_class(b, message, search) ==
  LET travel_class == str_upper(message)
  IN  IF travel_class \notin VALID_CLASSES
        THEN Handled(b, Resp(<<"Invalid travel class. Please select ECONOMY, BUSINESS, or FIRST:">>),
                     {"_handle_travel_class"})
      ELSE
        Bind(search_flights(Val(b.context.origin),
                            Val(b.context.destination),
                            Val(b.context.outbound_date),
                            b.context.return_date, MAX_FLIGHTS, search),
             LAMBDA found :
            IF found.raised
              THEN Handled([b EXCEPT !.state = "COMPLETE"],
                           Resp(<<"Sorry, we encountered an error while searching flights. Please start a new booking.">>),
                           {"_handle_travel_class", "search", "search_error"})
            ELSE IF found.trips = <<>>
              THEN Handled([b EXCEPT !.state = "COMPLETE"],
                           Resp(<<"Sorry, no flights found for your criteria. Please start a new booking.">>),
                           {"_handle_travel_class", "search"})
            ELSE
              LET b1 == [b EXCEPT !.context.travel_class = Some(travel_class),
                                  !.context.available_trips = found.trips]
              IN  Handled([b1 EXCEPT !.state = "FLIGHT_SELECTION"],
                          RespWith(<<"Here are the available flights:", "",
                                     "Please select a flight by entering its number (1-N):">>,
                                   [table |-> _format_flight_table(b1, found.trips, travel_class),
                                    N |-> Len(found.trips)]),
                          {"_handle_travel_class", "search"}))

\* BookingTransaction._get_booking_summary
_get_booking_summary(b) ==
  RespWith(IF b.context.return_date # None
             THEN <<"Here's a summary of your booking:", "From:", "To:", "Date:",
                    "Return:", "Class:", "Total Price:", "",
                    "Would you like to proceed with this booking?">>
             ELSE <<"Here's a summary of your booking:", "From:", "To:", "Date:",
                    "Class:", "Total Price:", "",
                    "Would you like to proceed with this booking?">>,
           [origin |-> b.context.origin, destination |-> b.context.destination,
            outbound_date |-> b.context.outbound_date,
            return_date |-> b.context.return_date,
            travel_class |-> b.context.travel_class,
            price |-> b.context.price])

\* A FLIGHT_SELECTION handler that takes a number above the count for the
\* last trip
_handle_flight_selection_clamped(b, message) ==
  Bind(int_of(message), LAMBDA selection :
      IF ~selection.ok
        THEN Handled(b, Resp(<<"Please enter a valid number for your flight selection:">>),
                     {"_handle_flight_selection"})
      ELSE IF 1 <= selection.val
        THEN
          LET selected_trip ==
                b.context.available_trips[Min(selection.val,
                                              Len(b.context.available_trips))]
              b1 == [b EXCEPT !.context.selected_trip = Some(selected_trip),
                              !.context.price =
                                Some(get_class_price(selected_trip,
                                                     Val(b.context.travel_class))),
                              !.state = "CONFIRMATION"]
          IN  Handled(b1, _get_booking_summary(b1), {"_handle_flight_selection"})
      ELSE Handled(b, RespWith(<<"Invalid selection. Please choose a number between 1 and N:">>,
                               [N |-> Len(b.context.available_trips)]),
                   {"_handle_flight_selection"}))

_handle_flight_selection(b, message) ==
  Bind(int_of(message), LAMBDA selection :
      IF ~selection.ok
        THEN Handled(b, Resp(<<"Please enter a valid number for your flight selection:">>),
                     {"_handle_flight_selection"})
      ELSE IF 1 <= selection.val /\ selection.val <= Len(b.context.available_trips)
        THEN
          LET selected_trip == b.context.available_trips[selection.val]
              prices == get_all_class_prices(selected_trip)
              price  == IF Val(b.context.travel_class) \in DOMAIN prices
                          THEN Some(prices[Val(b.context.travel_class)])
                          ELSE None
              b1 == [b EXCEPT !.context.selected_trip = Some(selected_trip),
                              !.context.price = price,
                              !.state = "CONFIRMATION"]
          IN  Handled(b1, _get_booking_summary(b1), {"_handle_flight_selection"})
      ELSE Handled(b, RespWith(<<"Invalid selection. Please choose a number between 1 and N:">>,
                               [N |-> Len(b.context.available_trips)]),
                   {"_handle_flight_selection"}))

\* A CONFIRMATION handler that takes every label but 'cancellation' for a
\* confirmation
_handle_confirmation_eager(b, message, auth, predict, create) ==
  Bind(IntentClassifier_predict(predict), LAMBDA intent :
      IF intent.raised
        THEN Raised(b, {"_handle_confirmation", "predict"})
      ELSE IF intent.label = "cancellation"
        THEN Handled([b EXCEPT !.state = "COMPLETE"],
                     Resp(<<"I've cancelled your booking request. Feel free to start a new booking when you're ready.">>),
                     {"_handle_confirmation", "predict"})
      ELSE
        Bind(create_booking(Val(b.context.selected_trip),
                            Val(auth.current_user).id,
                            Val(b.context.travel_class), create),
             LAMBDA made :
            [b |-> [b EXCEPT !.state = "COMPLETE"],
             resp |-> IF made.raised
                        THEN Resp(<<"I apologize, but I couldn't complete your booking. Please try again.">>)
                        ELSE RespWith(<<"Great! Your booking is confirmed. Your reference number is:">>,
                                      [reference |-> Val(made.booking).reference]),
             raised |-> FALSE,
             ev |-> {"_handle_confirmation", "predict", "create"},
             created |-> made.booking]))

_handle_confirmation(b, message, auth, predict, create) ==
  Bind(IntentClassifier_predict(predict), LAMBDA intent :
      IF intent.raised
        THEN Raised(b, {"_handle_confirmation", "predict"})
      ELSE IF intent.label = "confirmation"
        THEN
          Bind(IF auth.current_user = None
                 THEN [raised |-> TRUE, booking |-> None]
                 ELSE create_booking(Val(b.context.selected_trip),
                                     Val(auth.current_user).id,
                                     Val(b.context.travel_class), create),
               LAMBDA made :
              IF made.raised
                THEN Handled([b EXCEPT !.state = "COMPLETE"],
                             Resp(<<"I apologize, but I couldn't complete your booking. Please try again.">>),
                             {"_handle_confirmation", "predict", "create_error"}
                               \cup IF auth.current_user = None THEN {}
                                    ELSE {"create"})
                ELSE [b |-> [b EXCEPT !.state = "COMPLETE"],
                      resp |-> RespWith(<<"Great! Your booking is confirmed. Your reference number is:">>,
                                        [reference |-> Val(made.booking).reference]),
                      raised |-> FALSE,
                      ev |-> {"_handle_confirmation", "predict", "create"},
                      created |-> made.booking])
      ELSE IF intent.label = "cancellation"
        THEN Handled([b EXCEPT !.state = "COMPLETE"],
                     Resp(<<"I've cancelled your booking request. Feel free to start a new booking when you're ready.">>),
                     {"_handle_confirmation", "predict"})
      ELSE Handled(b, Resp(<<"I'm not sure if you want to confirm or cancel the booking. Please let me know clearly - would you like to proceed with this booking?">>),
                   {"_handle_confirmation", "predict"}))

\* What the collaborators give during one turn.
Env(predict, search, create, db_error) ==
  [predict |-> predict, search |-> search, create |-> create,
   db_error |-> db_error]

\* The states that have a handler
HandledStates ==
  {"INIT", "ORIGIN", "DESTINATION", "OUTBOUND_DATE", "RETURN_DATE",
   "TRAVEL_CLASS", "FLIGHT_SELECTION", "CONFIRMATION"}

\* `handlers.get(self.state)` applied to the message
handler(b, message, auth, env) ==
  CASE b.state = "INIT" -> _handle_init(b, message)
    [] b.state = "ORIGIN" -> _handle_origin(b, message)
    [] b.state = "DESTINATION" -> _handle_destination(b, message)
    [] b.state = "OUTBOUND_DATE" -> _handle_outbound_date(b, message)
    [] b.state = "RETURN_DATE" -> _handle_return_date(b, message)
    [] b.state = "TRAVEL_CLASS" -> _handle_travel_class(b, message, env.search)
    [] b.state = "FLIGHT_SELECTION" -> _handle_flight_selection(b, message)
    [] b.state = "CONFIRMATION" ->
         _handle_confirmation(b, message, auth, env.predict, env.create)

\* A dispatch that lets the handler's exception through
_process_internal_uncaught(b, message, auth, env) ==
  IF b.state \in HandledStates
    THEN handler(b, message, auth, env)
    ELSE Handled(b, Resp(<<"An error occurred in the booking process.">>), {})

\* A dispatch that sends the booking back to INIT when a handler fails
_process_internal_restart(b, message, auth, env) ==
  IF b.state \in HandledStates
    THEN
      Bind(handler(b, message, auth, env), LAMBDA r :
          IF r.raised
            THEN Handled([r.b EXCEPT !.state = "INIT"],
                         Resp(<<"Sorry, something went wrong. Please start a new booking.">>),
                         r.ev \cup {"handler_raised"})
            ELSE r)
    ELSE Handled(b, Resp(<<"An error occurred in the booking process.">>), {})

\* BookingTransaction._process_internal
_process_internal(b, message, auth, env) ==
  IF b.state \in HandledStates
    THEN
      Bind(handler(b, message, auth, env), LAMBDA r :
          IF r.raised
            THEN Handled([r.b EXCEPT !.state = "COMPLETE"],
                         Resp(<<"Sorry, something went wrong. Please start a new booking.">>),
                         r.ev \cup {"handler_raised"})
            ELSE r)
    ELSE Handled(b, Resp(<<"An error occurred in the booking process.">>), {})

(***************************************************************************)
(* transactions/transaction.py                                             *)
(***************************************************************************)
\* A check that lets 'no' cancel a booking paused for authentication
check_and_handle_auth_cancellable(b, auth, users, message, db_error) ==
  LET pass == [b |-> b, auth |-> auth, users |-> users, resp |-> None,
               raised |-> FALSE, ev |-> {}]
  IN  IF ~requires_auth(b) THEN pass
      ELSE IF ~is_authenticated(auth)
        THEN IF b.auth_flow = None
               THEN [b |-> [b EXCEPT !.auth_flow = Some(AuthFlow_new),
                                     !.paused_for_auth = TRUE],
                     auth |-> auth, users |-> users,
                     resp |-> Some(Resp(<<"You need to be logged in first. Would you like to login or register?">>)),
                     raised |-> FALSE, ev |-> {"auth_required"}]
             ELSE IF str_lower(message) = <<"n","o">>
               THEN [b |-> [b EXCEPT !.state = "COMPLETE", !.auth_flow = None,
                                     !.paused_for_auth = FALSE],
                     auth |-> auth, users |-> users,
                     resp |-> Some(Resp(<<"I've cancelled your booking request. Feel free to start a new booking when you're ready.">>)),
                     raised |-> FALSE, ev |-> {"auth_init"}]
               ELSE
                 Bind(AuthFlow_process(Val(b.auth_flow), auth, users,
                                       message, db_error),
                      LAMBDA r :
                     IF r.raised
                       THEN [b |-> [b EXCEPT !.auth_flow = Some(r.af)],
                             auth |-> r.auth, users |-> r.users, resp |-> None,
                             raised |-> TRUE, ev |-> r.ev]
                     ELSE IF AuthFlow_is_complete(r.af)
                       THEN [b |-> [b EXCEPT !.auth_flow = None,
                                             !.paused_for_auth = FALSE],
                             auth |-> r.auth, users |-> r.users,
                             resp |-> Some(r.resp), raised |-> FALSE,
                             ev |-> r.ev \cup {"auth_complete"}]
                     ELSE [b |-> [b EXCEPT !.auth_flow = Some(r.af)],
                           auth |-> r.auth, users |-> r.users,
                           resp |-> Some(r.resp), raised |-> FALSE, ev |-> r.ev])
      ELSE pass

\* A check that hands the message that created the sub-flow to it at once
check_and_handle_auth_eager(b, auth, users, message, db_error) ==
  LET pass == [b |-> b, auth |-> auth, users |-> users, resp |-> None,
               raised |-> FALSE, ev |-> {}]
      flow == IF b.auth_flow = None THEN AuthFlow_new ELSE Val(b.auth_flow)
      seen == IF b.auth_flow = None THEN {"auth_required"} ELSE {}
  IN  IF ~requires_auth(b) \/ is_authenticated(auth) THEN pass
      ELSE
        Bind(AuthFlow_process(flow, auth, users, message, db_error),
             LAMBDA r :
            IF r.raised
              THEN [b |-> [b EXCEPT !.auth_flow = Some(r.af)],
                    auth |-> r.auth, users |-> r.users, resp |-> None,
                    raised |-> TRUE, ev |-> r.ev \cup seen]
            ELSE IF AuthFlow_is_complete(r.af)
              THEN [b |-> [b EXCEPT !.auth_flow = None,
                                    !.paused_for_auth = FALSE],
                    auth |-> r.auth, users |-> r.users,
                    resp |-> Some(r.resp), raised |-> FALSE,
                    ev |-> r.ev \cup seen \cup {"auth_complete"}]
            ELSE [b |-> [b EXCEPT !.auth_flow = Some(r.af),
                                  !.paused_for_auth = TRUE],
                  auth |-> r.auth, users |-> r.users,
                  resp |-> Some(r.resp), raised |-> FALSE,
                  ev |-> r.ev \cup seen])

\* BaseTransaction.check_and_handle_auth. resp is None when the caller is to
\* go on with its own handler.
check_and_handle_auth(b, auth, users, message, db_error) ==
  LET pass == [b |-> b, auth |-> auth, users |-> users, resp |-> None,
               raised |-> FALSE, ev |-> {}]
  IN  IF ~requires_auth(b) THEN pass
      ELSE IF ~is_authenticated(auth)
        THEN IF b.auth_flow = None
               THEN [b |-> [b EXCEPT !.auth_flow = Some(AuthFlow_new),
                                     !.paused_for_auth = TRUE],
                     auth |-> auth, users |-> users,
                     resp |-> Some(Resp(<<"You need to be logged in first. Would you like to login or register?">>)),
                     raised |-> FALSE, ev |-> {"auth_required"}]
               ELSE
                 Bind(AuthFlow_process(Val(b.auth_flow), auth, users,
                                       message, db_error),
                      LAMBDA r :
                     IF r.raised
                       THEN [b |-> [b EXCEPT !.auth_flow = Some(r.af)],
                             auth |-> r.auth, users |-> r.users, resp |-> None,
                             raised |-> TRUE, ev |-> r.ev]
                     ELSE IF AuthFlow_is_complete(r.af)
                       THEN [b |-> [b EXCEPT !.auth_flow = None,
                                             !.paused_for_auth = FALSE],
                             auth |-> r.auth, users |-> r.users,
                             resp |-> Some(r.resp), raised |-> FALSE,
                             ev |-> r.ev \cup {"auth_complete"}]
                     ELSE [b |-> [b EXCEPT !.auth_flow = Some(r.af)],
                           auth |-> r.auth, users |-> r.users,
                           resp |-> Some(r.resp), raised |-> FALSE, ev |-> r.ev])
      ELSE pass

\* A process that runs the state handler whatever check_and_handle_auth
\* answered
process_through(b, auth, users, message, env) ==
  Bind(check_and_handle_auth(b, auth, users, message, env.db_error),
       LAMBDA a :
        Bind(_process_internal(a.b, message, a.auth, env), LAMBDA r :
            [b |-> r.b, auth |-> a.auth, users |-> a.users, resp |-> r.resp,
             raised |-> a.raised, ev |-> a.ev \cup r.ev,
             created |-> r.created]))

\* BookingTransaction.process (the same as BaseTransaction.process)
process(b, auth, users, message, env) ==
  Bind(check_and_handle_auth(b, auth, users, message, env.db_error),
       LAMBDA a :
      IF a.raised
        THEN [b |-> a.b, auth |-> a.auth, users |-> a.users,
              resp |-> Resp(<<>>), raised |-> TRUE, ev |-> a.ev,
              created |-> None]
      ELSE IF Truthy(a.resp)
        THEN [b |-> a.b, auth |-> a.auth, users |-> a.users,
              resp |-> Val(a.resp), raised |-> FALSE, ev |-> a.ev,
              created |-> None]
      ELSE
        Bind(_process_internal(a.b, message, a.auth, env), LAMBDA r :
            [b |-> r.b, auth |-> a.auth, users |-> a.users, resp |-> r.resp,
             raised |-> r.raised, ev |-> a.ev \cup r.ev,
             created |-> r.created]))

\* A cleanup that flips the pause flag instead of clearing it
cleanup_toggle(b) ==
  [b EXCEPT !.context = <<>>, !.auth_flow = None,
            !.paused_for_auth = ~b.paused_for_auth]

\* BaseTransaction.cleanup: context.clear() leaves the empty mapping
cleanup(b) ==
  [b EXCEPT !.context = <<>>, !.auth_flow = None, !.paused_for_auth = FALSE]

(***************************************************************************)
(* transactions/factory.py and transactions/status.py                      *)
(***************************************************************************)
\* TransactionFactory._transactions
RegisteredIntents == {"booking", "status"}

\* A factory that answers every label with a booking transaction
create_transaction_any(intent) ==
  [raised |-> FALSE, transaction |-> Some(BookingTransaction_new)]

\* TransactionFactory.create_transaction. StatusTransaction defines no
\* _process_internal, which BaseTransaction declares abstract: calling the
\* class raises TypeError.
create_transaction(intent) ==
  IF intent \notin RegisteredIntents
    THEN [raised |-> FALSE, transaction |-> None]
  ELSE IF intent = "booking"
    THEN [raised |-> FALSE, transaction |-> Some(BookingTransaction_new)]
  ELSE [raised |-> TRUE, transaction |-> None]

(***************************************************************************)
(* main.py                                                                 *)
(***************************************************************************)
\* FlightBookingChatbot._get_intent
_get_intent(predict) ==
  LET p == IntentClassifier_predict(predict)
  IN  IF p.raised THEN "unknown" ELSE p.label

\* FlightBookingChatbot._handle_unknown_intent
_handle_unknown_intent ==
  Resp(<<"I'm not sure I understand. Could you please rephrase that?">>)

\* `self.current_transaction and not self.current_transaction.is_complete`
\* A session that takes no transaction for active
HasActive_never(current_transaction) == FALSE

HasActive(current_transaction) ==
  current_transaction # None /\ ~is_complete(Val(current_transaction))

\* A session whose new transaction comes with an auth service of its own
process_message_own_auth(current_transaction, auth, users, message, env) ==
  IF HasActive(current_transaction)
    THEN
      Bind(process(Val(current_transaction), auth, users, message, env),
           LAMBDA r :
          IF r.raised
            THEN [current_transaction |-> Some(r.b), auth |-> r.auth,
                  users |-> r.users, resp |-> r.resp, raised |-> TRUE,
                  branch |-> "continue", intent |-> None, ev |-> r.ev,
                  cleanups |-> 0, cleaned |-> None, completed |-> None, created |-> None]
          ELSE IF is_complete(r.b)
            THEN [current_transaction |-> None, auth |-> r.auth,
                  users |-> r.users, resp |-> r.resp, raised |-> FALSE,
                  branch |-> "continue", intent |-> None, ev |-> r.ev,
                  cleanups |-> 1,
                  cleaned |-> Some(cleanup(r.b)), completed |-> Some(r.b),
                  created |-> r.created]
          ELSE [current_transaction |-> Some(r.b), auth |-> r.auth,
                users |-> r.users, resp |-> r.resp, raised |-> FALSE,
                branch |-> "continue", intent |-> None, ev |-> r.ev,
                cleanups |-> 0, cleaned |-> None, completed |-> None, created |-> r.created])
    ELSE
      LET intent == _get_intent(env.predict)
          made   == create_transaction(intent)
      IN  IF made.raised
            THEN [current_transaction |-> current_transaction, auth |-> auth,
                  users |-> users, resp |-> Resp(<<>>), raised |-> TRUE,
                  branch |-> "classify", intent |-> Some(intent),
                  ev |-> {"create_transaction"}, cleanups |-> 0, cleaned |-> None, completed |-> None,
                  created |-> None]
          ELSE IF made.transaction # None
            THEN
              Bind(process(Val(made.transaction), Auth_new, users, message, env),
                   LAMBDA r :
                  [current_transaction |-> Some(r.b), auth |-> r.auth,
                   users |-> r.users, resp |-> r.resp, raised |-> r.raised,
                   branch |-> "classify", intent |-> Some(intent),
                   ev |-> r.ev \cup {"create_transaction", "new_transaction"},
                   cleanups |-> 0, cleaned |-> None, completed |-> None, created |-> r.created])
          ELSE [current_transaction |-> current_transaction, auth |-> auth,
                users |-> users, resp |-> _handle_unknown_intent,
                raised |-> FALSE, branch |-> "classify",
                intent |-> Some(intent), ev |-> {"create_transaction"},
                cleanups |-> 0, cleaned |-> None, completed |-> None, created |-> None]

\* FlightBookingChatbot.process_message. The result holds the session after
\* the call, the response, whether an exception left the call, and what was
\* done: the branch taken, the intent classified, the collaborator calls, the
\* number of cleanup() calls, the transaction cleanup() was called on as it
\* left it, and the booking created.
process_message(current_transaction, auth, users, message, env) ==
  IF HasActive(current_transaction)
    THEN
      Bind(process(Val(current_transaction), auth, users, message, env),
           LAMBDA r :
          IF r.raised
            THEN [current_transaction |-> Some(r.b), auth |-> r.auth,
                  users |-> r.users, resp |-> r.resp, raised |-> TRUE,
                  branch |-> "continue", intent |-> None, ev |-> r.ev,
                  cleanups |-> 0, cleaned |-> None, completed |-> None, created |-> None]
          ELSE IF is_complete(r.b)
            THEN [current_transaction |-> None, auth |-> r.auth,
                  users |-> r.users, resp |-> r.resp, raised |-> FALSE,
                  branch |-> "continue", intent |-> None, ev |-> r.ev,
                  cleanups |-> 1,
                  cleaned |-> Some(cleanup(r.b)), completed |-> Some(r.b),
                  created |-> r.created]
          ELSE [current_transaction |-> Some(r.b), auth |-> r.auth,
                users |-> r.users, resp |-> r.resp, raised |-> FALSE,
                branch |-> "continue", intent |-> None, ev |-> r.ev,
                cleanups |-> 0, cleaned |-> None, completed |-> None, created |-> r.created])
    ELSE
      LET intent == _get_intent(env.predict)
          made   == create_transaction(intent)
      IN  IF made.raised
            THEN [current_transaction |-> current_transaction, auth |-> auth,
                  users |-> users, resp |-> Resp(<<>>), raised |-> TRUE,
                  branch |-> "classify", intent |-> Some(intent),
                  ev |-> {"create_transaction"}, cleanups |-> 0, cleaned |-> None, completed |-> None,
                  created |-> None]
          ELSE IF made.transaction # None
            THEN
              Bind(process(Val(made.transaction), auth, users, message, env),
                   LAMBDA r :
                  [current_transaction |-> Some(r.b), auth |-> r.auth,
                   users |-> r.users, resp |-> r.resp, raised |-> r.raised,
                   branch |-> "classify", intent |-> Some(intent),
                   ev |-> r.ev \cup {"create_transaction", "new_transaction"},
                   cleanups |-> 0, cleaned |-> None, completed |-> None, created |-> r.created])
          ELSE [current_transaction |-> current_transaction, auth |-> auth,
                users |-> users, resp |-> _handle_unknown_intent,
                raised |-> FALSE, branch |-> "classify",
                intent |-> Some(intent), ev |-> {"create_transaction"},
                cleanups |-> 0, cleaned |-> None, completed |-> None, created |-> None]

(***************************************************************************)
(* The conversation: FlightBookingChatbot.start_chat                       *)
(***************************************************************************)
VARIABLES
  current_transaction,  \* FlightBookingChatbot.current_transaction
  auth_service,         \* FlightBookingChatbot.auth_service
  users,                \* the User table
  running,              \* the chat loop has not ended
  turn,                 \* what the last iteration of the loop did
  life                  \* calls made on behalf of the latest transaction

vars == <<current_transaction, auth_service, users, running, turn, life>>

\* What the user types, as typed.
M_book == <<"b","o","o","k"," ","a"," ","f","l","i","g","h","t">>
M_round == <<"R","o","u","n","d"," ","t","r","i","p">>
M_hi == <<"h","i">>
M_exit == <<" ","Q","u","i","t"," ">>
M_london == <<"L","o","n","d","o","n">>
M_paris == <<"P","a","r","i","s">>
M_today == <<"2","0","3","0","-","0","6","-","1","5">>
M_yesterday == <<"2","0","3","0","-","0","6","-","1","4">>
M_future == <<"2","0","3","0","-","0","6","-","2","0">>
M_lenient == <<"2","0","3","0","-","6","-","2","0">>
M_feb30 == <<"2","0","3","0","-","0","2","-","3","0">>
M_soon == <<"s","o","o","n">>
M_economy == <<"e","c","o","n","o","m","y">>
M_first == <<"F","I","R","S","T">>
M_business == <<"B","u","s","i","n","e","s","s">>
M_premium == <<"p","r","e","m","i","u","m">>
M_1 == <<"1">>
M_2 == <<"2">>
M_6 == <<"6">>
M_0 == <<"0">>
M_neg == <<"-","1">>
M_plus == <<"+","2">>
M_abc == <<"a","b","c">>
M_float == <<"1",".","0">>
M_yes == <<"y","e","s">>
M_no == <<"n","o">>
M_login == <<"l","o","g","i","n">>
M_register == <<"R","e","g","i","s","t","e","r">>
M_signup == <<"s","i","g","n"," ","u","p">>
M_alice == <<"a","l","@","x",".","i","o">>
M_bob == <<"b","o","@","x",".","i","o">>
M_pw == <<"p","w","1">>
M_bad == <<"b","a","d">>
M_name == <<"B","o","b">>

\* The prompt the user is answering.
Prompt ==
  IF ~HasActive(current_transaction) THEN "SESSION"
  ELSE IF Val(current_transaction).auth_flow # None
    THEN Val(Val(current_transaction).auth_flow).state
  ELSE Val(current_transaction).state

\* The answers the user gives to each prompt: one of each kind the handler
\* tells apart, and the exit word.
UserInputs ==
  {M_exit} \cup
  CASE Prompt = "SESSION" -> {M_book, M_round, M_hi}
    [] Prompt = "ORIGIN" -> {M_london, M_paris}
    [] Prompt = "DESTINATION" -> {M_paris}
    [] Prompt \in {"OUTBOUND_DATE", "RETURN_DATE"} ->
         {M_today, M_yesterday, M_future, M_lenient, M_feb30, M_soon}
    [] Prompt = "TRAVEL_CLASS" -> {M_economy, M_first, M_business, M_premium}
    [] Prompt = "FLIGHT_SELECTION" ->
         {M_1, M_2, M_6, M_0, M_neg, M_plus, M_abc, M_float}
    [] Prompt = "CONFIRMATION" -> {M_yes, M_no, M_register}
    [] Prompt = "INIT" -> {M_login, M_register, M_signup, M_no}
    [] Prompt = "AWAITING_EMAIL" -> {M_alice, M_bob}
    [] Prompt = "AWAITING_PASSWORD" -> {M_pw, M_bad}
    [] Prompt = "AWAITING_NAME" -> {M_name}
    [] OTHER -> {M_hi}

\* What the collaborators may give in a turn answering the prompt.
Envs ==
  {Env(p, s, c, e) :
     p \in IF Prompt \in {"SESSION", "CONFIRMATION"} THEN PredictOutcomes
           ELSE IF Prompt = "INIT"
             THEN [has_pipeline : {TRUE}, raw_class : {"greeting", "cancellation"},
                   max_confidence : {41}]
           ELSE {[has_pipeline |-> TRUE, raw_class |-> "greeting",
                  max_confidence |-> 41]},
     s \in IF Prompt = "TRAVEL_CLASS" THEN SearchOutcomes
           ELSE {[db_error |-> FALSE, found |-> 0, with_return |-> {}]},
     c \in IF Prompt = "CONFIRMATION" THEN CreateOutcomes
           ELSE {[db_error |-> FALSE, reference |-> "K7Q2ZD"]},
     e \in IF Prompt \in {"AWAITING_PASSWORD", "AWAITING_NAME"}
           THEN BOOLEAN ELSE {FALSE}}

\* `user_input.lower() in ['exit', 'quit', 'bye']`
IsExit(user_input) ==
  str_lower(user_input) \in {<<"e","x","i","t">>, <<"q","u","i","t">>, <<"b","y","e">>}

StateOf(ct) == IF ct = None THEN "NONE" ELSE Val(ct).state

NoTurn ==
  [message |-> None, resp |-> Resp(<<>>), branch |-> "", intent |-> None,
   ev |-> {}, escaped |-> FALSE, cleanups |-> 0, cleaned |-> None, completed |-> None,
   created |-> None, classifies_as |-> "", predict |-> None, search |-> None,
   authed_before |-> FALSE, state_before |-> "NONE", paused_before |-> FALSE]

NoLife == [cleanups |-> 0, searches |-> 0, creates |-> 0]

Count(e, ev) == IF e \in ev THEN 1 ELSE 0

Init ==
  /\ current_transaction = None
  /\ auth_service = Auth_new
  /\ users = <<[id |-> 1, name |-> <<"A","l">>, email |-> M_alice,
                password |-> _hash_password(M_pw)]>>
  /\ running = TRUE
  /\ turn = NoTurn
  /\ life = NoLife

\* A session boundary that leaves the slot as the failed call left it
start_chat_slot_kept(r) == r.current_transaction

\* start_chat: the slot after process_message returned or raised
\* (`except Exception: ... self.current_transaction = None`)
start_chat_slot(r) == IF r.raised THEN None ELSE r.current_transaction

\* One iteration of the loop of start_chat that reaches process_message:
\* the input is stripped, process_message answers it, and an exception that
\* leaves process_message empties the slot.
Chat(raw, env) ==
  \E user_input \in {str_strip(raw)} :
  \E r \in {process_message(current_transaction, auth_service, users,
                            user_input, env)} :
  \E base \in {IF "new_transaction" \in r.ev THEN NoLife ELSE life} :
      /\ ~IsExit(user_input)
      /\ current_transaction' = start_chat_slot(r)
      /\ auth_service' = r.auth
      /\ users' = r.users
      /\ running' = TRUE
      /\ turn' = [message |-> Some(user_input),
                  resp |-> IF r.raised
                             THEN Resp(<<"I encountered an error:",
                                         "Let's start over. How can I help you?">>)
                             ELSE r.resp,
                  branch |-> r.branch, intent |-> r.intent, ev |-> r.ev,
                  escaped |-> r.raised, cleanups |-> r.cleanups,
                  cleaned |-> r.cleaned, completed |-> r.completed,
                  created |-> r.created,
                  classifies_as |-> _get_intent(env.predict),
                  predict |-> Some(env.predict),
                  search |-> Some(env.search),
                  authed_before |-> is_authenticated(auth_service),
                  state_before |-> StateOf(current_transaction),
                  paused_before |-> /\ current_transaction # None
                                    /\ Val(current_transaction).auth_flow # None]
      /\ life' = [cleanups |-> base.cleanups + r.cleanups,
                  searches |-> base.searches + Count("search", r.ev),
                  creates |-> base.creates + Count("create", r.ev)]

\* A message for the active transaction
ContinueTransaction ==
  /\ running
  /\ HasActive(current_transaction)
  /\ \E raw \in UserInputs : \E env \in Envs : Chat(raw, env)

\* A message when no transaction is active
ClassifyMessage ==
  /\ running
  /\ ~HasActive(current_transaction)
  /\ \E raw \in UserInputs : \E env \in Envs : Chat(raw, env)

\* 'exit', 'quit' or 'bye' ends the loop
Exit ==
  /\ running
  /\ \E raw \in UserInputs : IsExit(str_strip(raw))
  /\ running' = FALSE
  /\ UNCHANGED <<current_transaction, auth_service, users, turn, life>>

Next == ContinueTransaction \/ ClassifyMessage \/ Exit

Spec == Init /\ [][Next]_vars

(***************************************************************************)
(* Properties                                                              *)
(***************************************************************************)
LoginOrRegisterPrompt ==
  <<"You need to be logged in first. Would you like to login or register?">>

AuthFlowEvents == {"auth_init", "auth_email", "auth_password", "auth_name"}

BookingHandlerEvents ==
  {"_handle_init", "_handle_origin", "_handle_destination",
   "_handle_outbound_date", "_handle_return_date", "_handle_travel_class",
   "_handle_flight_selection", "_handle_confirmation"}

\* The last step was a turn of the conversation.
Spoke == turn.message # None

\* C1: the booking service's create operation is invoked only in a turn that
\* began with an authenticated user; a message at CONFIRMATION from an
\* unauthenticated user runs no confirmation handler and creates nothing: it
\* is answered by the login/register prompt when authentication has not been
\* asked for yet, and by the authentication dialogue after that.
C1_CreateOnlyWhenAuthenticated ==
  /\ ("create" \in turn.ev \/ turn.created # None) => turn.authed_before
  /\ (Spoke /\ turn.state_before = "CONFIRMATION" /\ ~turn.authed_before) =>
        /\ turn.ev \cap BookingHandlerEvents = {}
        /\ "create" \notin turn.ev
        /\ turn.created = None
        /\ ~turn.paused_before => turn.resp.text = LoginOrRegisterPrompt
        /\ turn.paused_before => turn.ev \cap AuthFlowEvents # {}

\* An unauthenticated user answers the booking summary with a message that
\* classifies as 'confirmation'.
C1_Witness ==
  /\ Spoke
  /\ turn.state_before = "CONFIRMATION"
  /\ ~turn.authed_before
  /\ turn.classifies_as = "confirmation"
  /\ turn.resp.text = LoginOrRegisterPrompt
  /\ turn.created = None
  /\ StateOf(current_transaction) = "CONFIRMATION"

\* The auth sub-flow the active transaction holds, if any.
SubFlow ==
  IF current_transaction = None THEN None
  ELSE Val(current_transaction).auth_flow

\* C2: a failed login at AWAITING_PASSWORD moves the sub-flow to
\* AWAITING_EMAIL and keeps the chosen action, and the message after it is
\* stored as the email.
C2_FailedLoginBackToEmail ==
  [][/\ (running' /\ "login_failed" \in turn'.ev) =>
          /\ SubFlow' # None
          /\ Val(SubFlow').state = "AWAITING_EMAIL"
          /\ Val(SubFlow').context.action = Val(SubFlow).context.action
     /\ (running' /\ "login_failed" \in turn.ev /\ SubFlow' # None) =>
          Val(SubFlow').context.email = turn'.message]_vars

\* C3: a message classified at session level to a label with no registered
\* transaction, 'unknown' included, is answered by the fixed clarification
\* string, no exception leaves the call and the slot is empty afterwards.
C3_UnregisteredLabelClarifies ==
  (Spoke /\ turn.branch = "classify"
         /\ Val(turn.intent) \notin RegisteredIntents) =>
    /\ turn.resp.text =
         <<"I'm not sure I understand. Could you please rephrase that?">>
    /\ ~turn.escaped
    /\ current_transaction = None

\* After a booking transaction has run to completion, a message is classified
\* to the unregistered label 'greeting'.
C3_Witness ==
  /\ Spoke
  /\ turn.branch = "classify"
  /\ turn.intent = Some("greeting")
  /\ life.cleanups = 1
  /\ current_transaction = None
  /\ turn.resp.text =
       <<"I'm not sure I understand. Could you please rephrase that?">>

\* C4: cleanup() is called in the process_message call in which the
\* transaction reports is_complete, once, on that transaction, and the slot
\* is cleared in that call: no completed transaction stays in the slot, no
\* transaction is cleaned up before it is complete or twice.
C4_CleanupOnceOnCompletion ==
  /\ StateOf(current_transaction) # "COMPLETE"
  /\ current_transaction # None => life.cleanups = 0
  /\ life.cleanups \in {0, 1}
  /\ turn.cleanups \in {0, 1}
  /\ turn.cleanups = 1 <=> turn.cleaned # None
  /\ turn.cleaned # None =>
       /\ Val(turn.cleaned).state = "COMPLETE"
       /\ Val(turn.cleaned).context = <<>>
       /\ Val(turn.cleaned).auth_flow = None
       /\ current_transaction = None
       /\ life.cleanups = 1

\* A booking is confirmed: the transaction completes at CONFIRMATION, is
\* cleaned up and leaves the slot.
C4_Witness ==
  /\ Spoke
  /\ turn.state_before = "CONFIRMATION"
  /\ turn.created # None
  /\ turn.cleanups = 1
  /\ life.cleanups = 1
  /\ current_transaction = None

\* The business fields of the booking the slot holds.
BookingFields ==
  [state |-> Val(current_transaction).state,
   context |-> Val(current_transaction).context]

\* C5: while the booking holds an auth sub-flow, a message goes to the
\* sub-flow only: no booking state handler runs in that turn and the booking's
\* state and context are as before (an exception of the sub-flow that leaves
\* process_message makes the session drop the transaction).
C5_PausedRoutesToSubFlowOnly ==
  [][(running' /\ SubFlow # None) =>
       /\ turn'.paused_before
       /\ turn'.ev \cap BookingHandlerEvents = {}
       /\ turn'.ev \cap {"predict", "search", "create"} = {}
       /\ turn'.ev \cap AuthFlowEvents # {}
       /\ IF turn'.escaped THEN current_transaction' = None
          ELSE /\ current_transaction' # None
               /\ BookingFields' = BookingFields]_vars

\* The paused booking has passed a message to the sub-flow, which asks for
\* the password; the booking is still at CONFIRMATION with its trip selected.
C5_Witness ==
  /\ Spoke
  /\ turn.paused_before
  /\ "auth_email" \in turn.ev
  /\ SubFlow # None
  /\ Val(SubFlow).state = "AWAITING_PASSWORD"
  /\ BookingFields.state = "CONFIRMATION"
  /\ BookingFields.context.selected_trip # None

\* The sub-flow's answer to a successful login or registration.
CompletionMessages ==
  {<<"Login successful", "Now, let's continue with your booking.">>,
   <<"Registration successful", "Now, let's continue with your booking.">>}

\* C6: in the turn in which the sub-flow completes (the login or the
\* registration succeeded) the transaction drops the sub-flow, answers with
\* the sub-flow's completion message, stays in CONFIRMATION, runs no
\* confirmation handler and creates no booking; the message after it is
\* handled by the confirmation handler.
C6_ResumeOnFollowingMessage ==
  [][(running' /\ turn.ev \cap {"login_ok", "register_ok"} # {}) =>
       /\ "auth_complete" \in turn.ev
       /\ SubFlow = None
       /\ ~Val(current_transaction).paused_for_auth
       /\ turn.resp.text \in CompletionMessages
       /\ BookingFields.state = "CONFIRMATION"
       /\ "_handle_confirmation" \notin turn.ev
       /\ "create" \notin turn.ev
       /\ turn.created = None
       /\ "_handle_confirmation" \in turn'.ev
       /\ turn'.ev \cap AuthFlowEvents = {}]_vars

\* The login has just succeeded: the sub-flow is gone, the booking waits at
\* CONFIRMATION and nothing was created.
C6_Witness ==
  /\ Spoke
  /\ "login_ok" \in turn.ev
  /\ "auth_complete" \in turn.ev
  /\ SubFlow = None
  /\ StateOf(current_transaction) = "CONFIRMATION"
  /\ turn.resp.text \in CompletionMessages
  /\ life.creates = 0

\* C7: an exception raised by a state handler does not leave
\* _process_internal: the transaction becomes COMPLETE and the generic
\* start-over response is returned, so the session cleans the transaction up
\* and empties the slot.
C7_HandlerExceptionTerminates ==
  "exception" \in turn.ev =>
    /\ ~turn.escaped
    /\ "handler_raised" \in turn.ev
    /\ turn.resp.text =
         <<"Sorry, something went wrong. Please start a new booking.">>
    /\ turn.cleaned # None
    /\ Val(turn.cleaned).state = "COMPLETE"
    /\ current_transaction = None

\* The classifier has no model when the confirmation handler asks it: the
\* handler raised ValueError and the turn ended with the generic response.
C7_Witness ==
  /\ Spoke
  /\ turn.state_before = "CONFIRMATION"
  /\ {"_handle_confirmation", "predict", "exception"} \subseteq turn.ev
  /\ turn.resp.text =
       <<"Sorry, something went wrong. Please start a new booking.">>
  /\ current_transaction = None

\* The message of the step's turn.
Said == Val(turn.message)

\* The booking's own prompt is the one being answered.
AtBookingState(st) == SubFlow = None /\ StateOf(current_transaction) = st

DateRePrompts ==
  {<<"Invalid date format. Please use YYYY-MM-DD format:">>,
   <<"Date cannot be in the past. Please enter a future date (YYYY-MM-DD):">>}

\* s is written YYYY-MM-DD: four digits, two digits, two digits.
IsYYYYMMDD(s) ==
  /\ Len(s) = 10
  /\ s[5] = "-" /\ s[8] = "-"
  /\ \A i \in {1, 2, 3, 4, 6, 7, 9, 10} : IsDigit(s[i])

\* C8 (as stated): at OUTBOUND_DATE a message that is not a date written
\* YYYY-MM-DD, or that is a date before today, is answered with a re-prompt
\* and leaves the transaction as it was.
C8_NotYYYYMMDDRePrompts ==
  [][(running' /\ AtBookingState("OUTBOUND_DATE")
        /\ \/ ~IsYYYYMMDD(Said')
           \/ ~strptime(Said').ok
           \/ date_lt(strptime(Said').date, Today)) =>
       /\ turn'.resp.text \in DateRePrompts
       /\ current_transaction' = current_transaction]_vars

\* C8 (amended): at OUTBOUND_DATE a message that strptime with "%Y-%m-%d"
\* rejects, or that is a date before today, is answered with a re-prompt and
\* leaves the state and every context field as they were.
C8_UnparsableOrPastRePrompts ==
  [][(running' /\ AtBookingState("OUTBOUND_DATE")
        /\ \/ ~strptime(Said').ok
           \/ date_lt(strptime(Said').date, Today)) =>
       /\ turn'.resp.text \in DateRePrompts
       /\ turn'.ev = {"_handle_outbound_date"}
       /\ current_transaction' = current_transaction]_vars

\* Yesterday's date was given at OUTBOUND_DATE and refused.
C8_Witness ==
  /\ Spoke
  /\ turn.state_before = "OUTBOUND_DATE"
  /\ turn.message = Some(M_yesterday)
  /\ turn.resp.text =
       <<"Date cannot be in the past. Please enter a future date (YYYY-MM-DD):">>
  /\ AtBookingState("OUTBOUND_DATE")
  /\ BookingFields.context.outbound_date = None

\* C9: a booking whose first message has no 'round' is one-way, one with it
\* is a round trip. One-way: an accepted outbound date moves OUTBOUND_DATE to
\* TRAVEL_CLASS, the state is never RETURN_DATE and return_date stays unset.
\* Round trip: an accepted outbound date moves to RETURN_DATE, and the
\* booking is at TRAVEL_CLASS or later only with a return date stored.
C9_ReturnDateOnlyForRoundTrip ==
  [][running' =>
       /\ "new_transaction" \in turn'.ev =>
            BookingFields'.context.trip_type =
              IF str_contains(str_lower(Said'), <<"r","o","u","n","d">>)
                THEN Some("ROUNDTRIP") ELSE Some("ONEWAY")
       /\ (current_transaction # None /\ current_transaction' # None) =>
            BookingFields'.context.trip_type = BookingFields.context.trip_type
       /\ (current_transaction' # None
             /\ BookingFields'.context.trip_type = Some("ONEWAY")) =>
            /\ BookingFields'.state # "RETURN_DATE"
            /\ BookingFields'.context.return_date = None
       /\ (current_transaction' # None
             /\ BookingFields'.context.trip_type = Some("ROUNDTRIP")
             /\ BookingFields'.state \in
                  {"TRAVEL_CLASS", "FLIGHT_SELECTION", "CONFIRMATION"}) =>
            BookingFields'.context.return_date # None
       /\ (AtBookingState("OUTBOUND_DATE") /\ current_transaction' # None
             /\ BookingFields'.context.outbound_date # None) =>
            BookingFields'.state =
              IF BookingFields.context.trip_type = Some("ONEWAY")
                THEN "TRAVEL_CLASS" ELSE "RETURN_DATE"]_vars

\* A one-way booking has had its outbound date accepted and asks for the
\* travel class with no return date.
C9_Witness ==
  /\ Spoke
  /\ turn.state_before = "OUTBOUND_DATE"
  /\ AtBookingState("TRAVEL_CLASS")
  /\ BookingFields.context.trip_type = Some("ONEWAY")
  /\ BookingFields.context.outbound_date # None
  /\ BookingFields.context.return_date = None

SelectionRePrompts ==
  {<<"Please enter a valid number for your flight selection:">>,
   <<"Invalid selection. Please choose a number between 1 and N:">>}

\* C10: at FLIGHT_SELECTION a message that is not a number, or is a number
\* below 1 or above the number of stored trips, is answered with a re-prompt
\* and leaves the state, the selected trip and the price as they were.
C10_BadSelectionRePrompts ==
  [][(running' /\ AtBookingState("FLIGHT_SELECTION")
        /\ \/ ~int_of(Said').ok
           \/ int_of(Said').val < 1
           \/ int_of(Said').val >
                Len(BookingFields.context.available_trips)) =>
       /\ turn'.resp.text \in SelectionRePrompts
       /\ current_transaction' # None
       /\ BookingFields'.state = "FLIGHT_SELECTION"
       /\ BookingFields'.context.selected_trip =
            BookingFields.context.selected_trip
       /\ BookingFields'.context.price = BookingFields.context.price
       /\ BookingFields' = BookingFields]_vars

\* With five trips on offer the user asked for the sixth.
C10_Witness ==
  /\ Spoke
  /\ turn.state_before = "FLIGHT_SELECTION"
  /\ turn.message = Some(M_6)
  /\ AtBookingState("FLIGHT_SELECTION")
  /\ Len(BookingFields.context.available_trips) = MAX_FLIGHTS
  /\ turn.resp.text =
       <<"Invalid selection. Please choose a number between 1 and N:">>
  /\ BookingFields.context.selected_trip = None
  /\ BookingFields.context.price = None

\* C11: at FLIGHT_SELECTION a message that is a number i with
\* 1 <= i <= number of stored trips moves the booking to CONFIRMATION, stores
\* the i-th stored trip as the selected trip and stores, and shows in the
\* summary, that trip's price for the travel class stored at TRAVEL_CLASS;
\* nothing else in the context changes.
C11_ValidSelectionStoresTripAndPrice ==
  [][(running' /\ AtBookingState("FLIGHT_SELECTION")
        /\ int_of(Said').ok
        /\ int_of(Said').val \in
             1..Len(BookingFields.context.available_trips)) =>
       /\ current_transaction' # None
       /\ BookingFields'.state = "CONFIRMATION"
       /\ BookingFields'.context =
            [BookingFields.context EXCEPT
               !.selected_trip =
                  Some(BookingFields.context.available_trips[int_of(Said').val]),
               !.price =
                  Some(get_class_price(
                         BookingFields.context.available_trips[int_of(Said').val],
                         Val(BookingFields.context.travel_class)))]
       /\ turn'.resp.text[1] = "Here's a summary of your booking:"
       /\ turn'.resp.data.price = BookingFields'.context.price
       /\ turn'.resp.data.travel_class = BookingFields.context.travel_class]_vars

\* With FIRST stored as the class the user chose the second trip: it is the
\* selected trip and the summary shows its first-class price.
C11_Witness ==
  /\ Spoke
  /\ turn.state_before = "FLIGHT_SELECTION"
  /\ turn.message = Some(M_2)
  /\ AtBookingState("CONFIRMATION")
  /\ BookingFields.context.travel_class = Some(<<"F","I","R","S","T">>)
  /\ BookingFields.context.selected_trip =
       Some(BookingFields.context.available_trips[2])
  /\ BookingFields.context.price =
       Some(get_class_price(BookingFields.context.available_trips[2],
                            <<"F","I","R","S","T">>))
  /\ turn.resp.data.price = BookingFields.context.price

\* The label the classifier gives the message of the turn, when it gives one.
Label == IntentClassifier_predict(Val(turn.predict)).label

\* The booking waits at CONFIRMATION and the user is authenticated.
AtConfirmationAuthenticated ==
  AtBookingState("CONFIRMATION") /\ is_authenticated(auth_service)

\* C12: at CONFIRMATION with an authenticated user, a message classified
\* 'confirmation' invokes booking creation with the selected trip, the
\* current user's id and the stored travel class, ends in COMPLETE and, the
\* booking being created, answers with its reference; 'cancellation' ends in
\* COMPLETE with no creation; any other label re-prompts, leaves the
\* transaction as it was and creates nothing.
C12_ConfirmationOutcomes ==
  [][(running' /\ AtConfirmationAuthenticated
        /\ ~IntentClassifier_predict(Val(turn'.predict)).raised) =>
       /\ {"_handle_confirmation", "predict"} \subseteq turn'.ev
       /\ Label' = "confirmation" =>
            /\ "create" \in turn'.ev
            /\ turn'.cleaned # None
            /\ Val(turn'.cleaned).state = "COMPLETE"
            /\ current_transaction' = None
            /\ turn'.created # None =>
                 /\ Val(turn'.created).user_id =
                      Val(auth_service.current_user).id
                 /\ Val(turn'.created).travel_class =
                      Val(BookingFields.context.travel_class)
                 /\ Val(turn'.created).outbound_flight_id =
                      Val(BookingFields.context.selected_trip).outbound_flight.id
                 /\ Val(turn'.created).trip_type =
                      Val(BookingFields.context.selected_trip).trip_type
                 /\ turn'.resp.text =
                      <<"Great! Your booking is confirmed. Your reference number is:">>
                 /\ turn'.resp.data.reference = Val(turn'.created).reference
            /\ turn'.created = None =>
                 /\ "create_error" \in turn'.ev
                 /\ turn'.resp.text =
                      <<"I apologize, but I couldn't complete your booking. Please try again.">>
       /\ Label' = "cancellation" =>
            /\ "create" \notin turn'.ev
            /\ turn'.created = None
            /\ turn'.cleaned # None
            /\ Val(turn'.cleaned).state = "COMPLETE"
            /\ current_transaction' = None
            /\ turn'.resp.text =
                 <<"I've cancelled your booking request. Feel free to start a new booking when you're ready.">>
       /\ Label' \notin {"confirmation", "cancellation"} =>
            /\ "create" \notin turn'.ev
            /\ turn'.created = None
            /\ current_transaction' = current_transaction
            /\ turn'.resp.text =
                 <<"I'm not sure if you want to confirm or cancel the booking. Please let me know clearly - would you like to proceed with this booking?">>]_vars

\* The logged-in user confirmed: the booking was created for that user and
\* the stored class, and its reference is in the answer.
C12_Witness ==
  /\ Spoke
  /\ turn.state_before = "CONFIRMATION"
  /\ turn.authed_before
  /\ Label = "confirmation"
  /\ turn.created # None
  /\ Val(turn.created).user_id = Val(auth_service.current_user).id
  /\ turn.resp.data.reference = Val(turn.created).reference
  /\ Val(turn.cleaned).state = "COMPLETE"
  /\ current_transaction = None

\* The classifier has no model for the message of the turn: predict raises
\* ValueError.
ClassificationFailed == IntentClassifier_predict(Val(turn.predict)).raised

\* C13: when classification fails for want of a model, the message is treated
\* as 'unknown' and the conversation continues: at session level the answer
\* is the clarification string and no transaction is created, at CONFIRMATION
\* the booking re-prompts and stays as it was, and no exception leaves
\* process_message.
C13_ClassificationFailureIsUnknown ==
  [][(running' /\ ClassificationFailed'
        /\ (~HasActive(current_transaction) \/ AtConfirmationAuthenticated)) =>
       /\ ~turn'.escaped
       /\ ~HasActive(current_transaction) =>
            /\ turn'.resp.text =
                 <<"I'm not sure I understand. Could you please rephrase that?">>
            /\ current_transaction' = None
       /\ AtConfirmationAuthenticated =>
            /\ turn'.resp.text =
                 <<"I'm not sure if you want to confirm or cancel the booking. Please let me know clearly - would you like to proceed with this booking?">>
            /\ current_transaction' = current_transaction]_vars

RestartMessage ==
  <<"I encountered an error:", "Let's start over. How can I help you?">>

\* C14: an exception that leaves process_message is caught by the chat loop:
\* the slot is emptied, the user gets the restart message, the loop goes on
\* and the next message is classified afresh.
C14_EscapedExceptionRestarts ==
  [][/\ (running' /\ turn'.escaped) =>
       /\ current_transaction' = None
       /\ turn'.resp.text = RestartMessage
       /\ turn'.created = None
       /\ turn'.cleanups = 0
     /\ (running' /\ turn.escaped) =>
          /\ running
          /\ turn'.branch = "classify"
          /\ turn'.intent # None]_vars

\* The database failed during the login of the sub-flow: the exception left
\* process_message, the paused booking was discarded and the user was told
\* to start over.
C14_Witness ==
  /\ Spoke
  /\ turn.escaped
  /\ turn.paused_before
  /\ "login" \in turn.ev
  /\ turn.resp.text = RestartMessage
  /\ current_transaction = None
  /\ running

\* C15: when the session holds no incomplete transaction and the message's
\* label maps to a transaction type, process_message builds the transaction,
\* stores it as the active one and passes the same message to it in the same
\* call; a booking takes its trip type from that message and ends the turn
\* in ORIGIN.
C15_NewTransactionGetsSameMessage ==
  [][(running' /\ ~HasActive(current_transaction)
        /\ Val(turn'.intent) \in RegisteredIntents) =>
       /\ ~turn'.escaped
       /\ "new_transaction" \in turn'.ev
       /\ current_transaction' # None
       /\ Val(turn'.intent) = "booking" =>
            /\ "_handle_init" \in turn'.ev
            /\ BookingFields'.state = "ORIGIN"
            /\ BookingFields'.context =
                 [BookingTransaction_new.context EXCEPT
                    !.trip_type =
                       IF str_contains(str_lower(Said'), <<"r","o","u","n","d">>)
                         THEN Some("ROUNDTRIP") ELSE Some("ONEWAY")]
            /\ turn'.resp.text = <<"Please enter your departure city:">>]_vars

\* C16: the factory maps 'booking' to a new booking transaction, 'status' to
\* a new status transaction and every other label to no transaction, and it
\* never fails for a known label.
C16_FactoryTotalMapping ==
  (Spoke /\ turn.branch = "classify") =>
    /\ ~create_transaction(Val(turn.intent)).raised
    /\ Val(turn.intent) = "booking" =>
         create_transaction("booking").transaction = Some(BookingTransaction_new)
    /\ Val(turn.intent) = "status" =>
         /\ create_transaction("status").transaction # None
         /\ Val(create_transaction("status").transaction).kind = "status"
    /\ Val(turn.intent) \notin RegisteredIntents =>
         create_transaction(Val(turn.intent)).transaction = None

\* Maximum class probabilities, in hundredths, below, at and above 0.4.
SampleConfidences == {0, 20, 39, 40, 41, 70, 100}

\* C17: the effective label is 'unknown' for every model output whose
\* maximum class probability is at most 0.4, whatever the predicted class,
\* and the predicted class for every output above 0.4; so is the label the
\* session acts on when it classifies a message.
C17_StrictConfidenceThreshold ==
  /\ \A c \in ModelClasses : \A p \in SampleConfidences :
       /\ ~IntentClassifier_predict([has_pipeline |-> TRUE, raw_class |-> c,
                                     max_confidence |-> p]).raised
       /\ IntentClassifier_predict([has_pipeline |-> TRUE, raw_class |-> c,
                                    max_confidence |-> p]).label =
            IF p <= 40 THEN "unknown" ELSE c
  /\ (Spoke /\ turn.branch = "classify" /\ Val(turn.predict).has_pipeline) =>
       Val(turn.intent) =
         IF Val(turn.predict).max_confidence <= 40 THEN "unknown"
         ELSE Val(turn.predict).raw_class

\* The model's best class was 'booking' with probability exactly 0.4: the
\* session took the message for 'unknown' and built no transaction.
C17_Witness ==
  /\ Spoke
  /\ turn.branch = "classify"
  /\ Val(turn.predict).has_pipeline
  /\ Val(turn.predict).raw_class = "booking"
  /\ Val(turn.predict).max_confidence = 40
  /\ turn.intent = Some("unknown")
  /\ current_transaction = None

\* C18: a message labelled 'status' starts a Status transaction whose first
\* message is stored as the booking reference, which makes it complete; a
\* further message leaves the stored reference unchanged.
C18_StatusTwoTurnFlow ==
  [][/\ (running' /\ ~HasActive(current_transaction)
           /\ turn'.intent = Some("status")) =>
          /\ ~turn'.escaped
          /\ current_transaction' # None
          /\ Val(current_transaction').kind = "status"
          /\ Val(current_transaction').context.booking_ref = turn'.message
     /\ (running' /\ current_transaction # None
           /\ Val(current_transaction).kind = "status"
           /\ current_transaction' # None
           /\ Val(current_transaction').kind = "status") =>
          Val(current_transaction').context.booking_ref =
            Val(current_transaction).context.booking_ref]_vars

\* cleanup() applied to b once and twice gives the same transaction, with
\* nothing left in it.
CleanupIdempotentOn(b) ==
  /\ cleanup(cleanup(b)) = cleanup(b)
  /\ cleanup(b).context = <<>>
  /\ cleanup(b).auth_flow = None
  /\ ~cleanup(b).paused_for_auth
  /\ cleanup(cleanup(b)).context = <<>>
  /\ cleanup(cleanup(b)).auth_flow = None
  /\ ~cleanup(cleanup(b)).paused_for_auth

\* C19: cleanup() is idempotent on every transaction the session holds, and
\* on the transaction the session has already cleaned up: once or twice in a
\* row it leaves the context empty, no sub-flow and the pause flag false.
C19_CleanupIdempotent ==
  /\ current_transaction # None => CleanupIdempotentOn(Val(current_transaction))
  /\ turn.cleaned # None =>
       /\ CleanupIdempotentOn(Val(turn.cleaned))
       /\ cleanup(Val(turn.cleaned)) = Val(turn.cleaned)

\* The user cancelled at CONFIRMATION and the session called cleanup() on the
\* completed booking: its context is empty, and calling cleanup() again on
\* it changes nothing.
C19_Witness ==
  /\ Spoke
  /\ turn.state_before = "CONFIRMATION"
  /\ "_handle_confirmation" \in turn.ev
  /\ turn.created = None
  /\ turn.cleanups = 1
  /\ Val(turn.cleaned).context = <<>>
  /\ cleanup(Val(turn.cleaned)) = Val(turn.cleaned)
  /\ cleanup(cleanup(Val(turn.cleaned))) = Val(turn.cleaned)

SearchDeadEnds ==
  {<<"Sorry, no flights found for your criteria. Please start a new booking.">>,
   <<"Sorry, we encountered an error while searching flights. Please start a new booking.">>}

\* The transaction of the turn completed, was cleaned up and left the slot.
TurnCompleted ==
  /\ turn.cleaned # None
  /\ Val(turn.cleaned).state = "COMPLETE"
  /\ current_transaction = None

\* C20: a booking transaction calls the flight search at most once and the
\* booking creation at most once in its life: a search either offers trips
\* and moves on to FLIGHT_SELECTION, or (nothing found, search error) ends the
\* transaction; a creation, failed or not, ends the transaction.
C20_SearchAndCreateAtMostOnce ==
  /\ life.searches \in {0, 1}
  /\ life.creates \in {0, 1}
  /\ "search" \in turn.ev =>
       \/ /\ AtBookingState("FLIGHT_SELECTION")
          /\ BookingFields.context.available_trips # <<>>
          /\ "search_error" \notin turn.ev
       \/ /\ TurnCompleted
          /\ turn.resp.text \in SearchDeadEnds
  /\ "search_error" \in turn.ev =>
       /\ TurnCompleted
       /\ turn.resp.text =
            <<"Sorry, we encountered an error while searching flights. Please start a new booking.">>
  /\ "create" \in turn.ev => TurnCompleted
  /\ "create_error" \in turn.ev =>
       /\ TurnCompleted
       /\ turn.created = None
       /\ turn.resp.text =
            <<"I apologize, but I couldn't complete your booking. Please try again.">>
  /\ current_transaction # None =>
       /\ life.creates = 0
       /\ life.searches = 1 <=>
            BookingFields.state \in {"FLIGHT_SELECTION", "CONFIRMATION"}

\* The booking service failed at CONFIRMATION: the transaction had searched
\* once and tried to create once, and it is over.
C20_Witness ==
  /\ Spoke
  /\ "create_error" \in turn.ev
  /\ "create" \in turn.ev
  /\ life.searches = 1
  /\ life.creates = 1
  /\ TurnCompleted

\* What the flight search gives the booking in the slot, the database
\* answering as it did in the turn that follows.
SearchResult ==
  search_flights(Val(BookingFields.context.origin),
                 Val(BookingFields.context.destination),
                 Val(BookingFields.context.outbound_date),
                 BookingFields.context.return_date, MAX_FLIGHTS,
                 Val(turn'.search))

\* C21: at TRAVEL_CLASS a message whose uppercase form is not ECONOMY,
\* BUSINESS or FIRST is answered with the re-prompt, leaves state and context
\* as they were and makes no search; a message whose uppercase form is one of
\* them, the search giving at least one trip, stores that class and the trips
\* found and moves to FLIGHT_SELECTION.
C21_TravelClassValidation ==
  [][(running' /\ current_transaction # None
               /\ BookingFields.state = "TRAVEL_CLASS") =>
       /\ "_handle_travel_class" \in turn'.ev
       /\ str_upper(Val(turn'.message)) \notin VALID_CLASSES =>
            /\ turn'.resp.text =
                 <<"Invalid travel class. Please select ECONOMY, BUSINESS, or FIRST:">>
            /\ current_transaction' # None
            /\ BookingFields' = BookingFields
            /\ turn'.ev \cap {"search", "search_error"} = {}
       /\ (/\ str_upper(Val(turn'.message)) \in VALID_CLASSES
           /\ ~SearchResult.raised
           /\ SearchResult.trips # <<>>) =>
            /\ "search" \in turn'.ev
            /\ current_transaction' # None
            /\ BookingFields'.state = "FLIGHT_SELECTION"
            /\ BookingFields'.context =
                 [BookingFields.context EXCEPT
                    !.travel_class = Some(str_upper(Val(turn'.message))),
                    !.available_trips = SearchResult.trips]]_vars

\* 'economy' typed in lower case at TRAVEL_CLASS: the search found more than
\* MAX_FLIGHTS flights, the class is stored in upper case with the trips
\* offered and the booking waits at FLIGHT_SELECTION.
C21_Witness ==
  /\ Spoke
  /\ turn.state_before = "TRAVEL_CLASS"
  /\ turn.message = Some(M_economy)
  /\ "search" \in turn.ev
  /\ AtBookingState("FLIGHT_SELECTION")
  /\ BookingFields.context.travel_class = Some(<<"E","C","O","N","O","M","Y">>)
  /\ Len(BookingFields.context.available_trips) = MAX_FLIGHTS

ReturnDateRePrompts ==
  {<<"Invalid date format. Please use YYYY-MM-DD format:">>,
   <<"Return date must be after outbound date. Please enter a valid date (YYYY-MM-DD):">>}

\* C22: at RETURN_DATE a message strptime rejects, or a date before the
\* stored outbound date, is answered with a re-prompt and leaves state and
\* context as they were; any other date is stored and the state becomes
\* TRAVEL_CLASS; whenever a return date is stored it is not before the
\* outbound date.
C22_ReturnDateNotBeforeOutbound ==
  [][running' =>
       /\ AtBookingState("RETURN_DATE") =>
            IF \/ ~strptime(Said').ok
               \/ date_lt(strptime(Said').date,
                          Val(BookingFields.context.outbound_date))
              THEN /\ turn'.resp.text \in ReturnDateRePrompts
                   /\ turn'.ev = {"_handle_return_date"}
                   /\ current_transaction' = current_transaction
              ELSE /\ turn'.ev = {"_handle_return_date"}
                   /\ current_transaction' # None
                   /\ BookingFields'.state = "TRAVEL_CLASS"
                   /\ BookingFields'.context =
                        [BookingFields.context EXCEPT
                           !.return_date = Some(strptime(Said').date)]
       /\ (current_transaction' # None
             /\ BookingFields'.context.return_date # None) =>
            /\ BookingFields'.context.outbound_date # None
            /\ ~date_lt(Val(BookingFields'.context.return_date),
                        Val(BookingFields'.context.outbound_date))]_vars

\* A return on the day of the outbound flight was given at RETURN_DATE and
\* accepted: the booking asks for the travel class.
C22_Witness ==
  /\ Spoke
  /\ turn.state_before = "RETURN_DATE"
  /\ AtBookingState("TRAVEL_CLASS")
  /\ BookingFields.context.return_date # None
  /\ BookingFields.context.return_date = BookingFields.context.outbound_date

\* The sub-flow is in state st and its action is 'register'.
Registering(st) ==
  /\ SubFlow # None
  /\ Val(SubFlow).state = st
  /\ Val(SubFlow).context.action = Some("register")

\* C23: with the action 'register', a failed registration at AWAITING_NAME
\* moves the sub-flow back to AWAITING_EMAIL, the action still 'register';
\* from there the email, then the password, then the name are taken from
\* the next messages with no collaborator call until the name has come, which
\* is the only moment register is called; a successful registration
\* completes the sub-flow and stores the user with what was collected.
C23_FailedRegistrationRestarts ==
  [][running' =>
       /\ "register" \in turn'.ev <=> Registering("AWAITING_NAME")
       /\ "register_failed" \in turn'.ev =>
            /\ SubFlow' # None
            /\ Val(SubFlow').state = "AWAITING_EMAIL"
            /\ Val(SubFlow').context =
                 [Val(SubFlow).context EXCEPT !.name = Some(Said')]
            /\ ~is_authenticated(auth_service')
            /\ users' = users
            /\ BookingFields' = BookingFields
       /\ "register_ok" \in turn'.ev =>
            /\ "auth_complete" \in turn'.ev
            /\ SubFlow' = None
            /\ is_authenticated(auth_service')
            /\ users' = Append(users, Val(auth_service'.current_user))
            /\ Val(auth_service'.current_user).email =
                 Val(Val(SubFlow).context.email)
            /\ Val(auth_service'.current_user).password =
                 _hash_password(Val(Val(SubFlow).context.password))
            /\ Val(auth_service'.current_user).name = Said'
       /\ Registering("AWAITING_EMAIL") =>
            /\ turn'.ev = {"auth_email"}
            /\ Val(SubFlow').state = "AWAITING_PASSWORD"
            /\ Val(SubFlow').context =
                 [Val(SubFlow).context EXCEPT !.email = Some(Said')]
       /\ Registering("AWAITING_PASSWORD") =>
            /\ turn'.ev = {"auth_password"}
            /\ Val(SubFlow').state = "AWAITING_NAME"
            /\ Val(SubFlow').context =
                 [Val(SubFlow).context EXCEPT !.password = Some(Said')]]_vars

\* A registration with an email that is already registered has failed: the
\* sub-flow asks for the email again and the action is still 'register'.
C23_Witness ==
  /\ Spoke
  /\ "register_failed" \in turn.ev
  /\ turn.resp.text =
       <<"Email already registered", "Please try again with your email:">>
  /\ Registering("AWAITING_EMAIL")
  /\ Val(SubFlow).context.email = Some(M_alice)
  /\ ~is_authenticated(auth_service)

\* AuthFlowStates without COMPLETE
AuthFlowWaitingStates ==
  {"INIT", "AWAITING_EMAIL", "AWAITING_PASSWORD", "AWAITING_NAME"}

\* C24: the sub-flow completes only in a turn in which login or register has
\* just reported success (the user is authenticated from that turn on, and
\* no completed sub-flow is kept); AWAITING_NAME is entered only from
\* AWAITING_PASSWORD with the action 'register'; a sub-flow that has left
\* INIT is never in INIT again.
C24_AuthFlowTransitions ==
  [][running' =>
       /\ "auth_complete" \in turn'.ev <=>
            turn'.ev \cap {"login_ok", "register_ok"} # {}
       /\ "auth_complete" \in turn'.ev =>
            /\ SubFlow # None
            /\ ~is_authenticated(auth_service)
            /\ is_authenticated(auth_service')
            /\ SubFlow' = None
       /\ SubFlow' # None =>
            /\ Val(SubFlow').state \in AuthFlowWaitingStates
            /\ ~is_authenticated(auth_service')
       /\ (SubFlow # None /\ SubFlow' = None /\ ~turn'.escaped) =>
            "auth_complete" \in turn'.ev
       /\ (SubFlow' # None /\ Val(SubFlow').state = "AWAITING_NAME") =>
            /\ Val(SubFlow').context.action = Some("register")
            /\ SubFlow # None
            /\ Val(SubFlow).state = "AWAITING_PASSWORD"
            /\ "login" \notin turn'.ev
       /\ (SubFlow' # None /\ Val(SubFlow').state = "INIT") =>
            /\ SubFlow = None
            /\ "auth_required" \in turn'.ev
       /\ (SubFlow # None /\ Val(SubFlow).state # "INIT" /\ SubFlow' # None) =>
            Val(SubFlow').state # "INIT"]_vars

\* A registration has just succeeded: the sub-flow went through
\* AWAITING_NAME, completed and was dropped, and the new user is logged in.
C24_Witness ==
  /\ Spoke
  /\ turn.paused_before
  /\ "register_ok" \in turn.ev
  /\ "auth_complete" \in turn.ev
  /\ SubFlow = None
  /\ is_authenticated(auth_service)
  /\ Val(auth_service.current_user).name = M_name

\* The booking waits at CONFIRMATION, the user is not authenticated and no
\* sub-flow exists yet.
AuthFirstNeeded ==
  /\ AtBookingState("CONFIRMATION")
  /\ ~is_authenticated(auth_service)

\* _handle_init of the sub-flow: 'register' or 'sign up' in the message
AsksToRegister(message) ==
  \/ str_contains(str_lower(message), <<"r","e","g","i","s","t","e","r">>)
  \/ str_contains(str_lower(message), <<"s","i","g","n"," ","u","p">>)

\* C25: the sub-flow is created by the first message that reaches
\* CONFIRMATION with no user authenticated, and by no other; that message
\* gets the login-or-register prompt and goes neither to the sub-flow nor to
\* the confirmation handler, so the sub-flow is a fresh one in INIT after it;
\* the message after it is the one searched for 'register' / 'sign up' to
\* set the action, and it moves the sub-flow to AWAITING_EMAIL.
C25_SubFlowCreatedLazily ==
  [][running' =>
       /\ "auth_required" \in turn'.ev <=> AuthFirstNeeded
       /\ (SubFlow = None /\ SubFlow' # None) <=> AuthFirstNeeded
       /\ AuthFirstNeeded =>
            /\ turn'.ev = {"auth_required"}
            /\ turn'.resp.text = LoginOrRegisterPrompt
            /\ SubFlow' = Some(AuthFlow_new)
            /\ Val(current_transaction').paused_for_auth
            /\ BookingFields' = BookingFields
            /\ auth_service' = auth_service
       /\ (SubFlow # None /\ Val(SubFlow).state = "INIT") =>
            /\ "auth_required" \in turn.ev
            /\ turn'.ev = {"auth_init"}
            /\ SubFlow' # None
            /\ Val(SubFlow').state = "AWAITING_EMAIL"
            /\ Val(SubFlow').context =
                 [AuthFlow_new.context EXCEPT
                    !.action = IF AsksToRegister(Said') THEN Some("register")
                               ELSE Some("login")]
            /\ turn'.resp.text =
                 IF AsksToRegister(Said')
                   THEN <<"Let's create an account. Please enter your email:">>
                   ELSE <<"Please enter your email to login:">>]_vars

\* 'Register' is the first message to reach CONFIRMATION with nobody logged
\* in: it is answered with the login-or-register prompt, and the sub-flow
\* just created is in INIT with no action chosen.
C25_Witness ==
  /\ Spoke
  /\ turn.state_before = "CONFIRMATION"
  /\ ~turn.paused_before
  /\ turn.message = Some(M_register)
  /\ turn.ev = {"auth_required"}
  /\ turn.resp.text = LoginOrRegisterPrompt
  /\ SubFlow = Some(AuthFlow_new)

\* The state that follows the state of booking b in the listed order
NextState(b) ==
  CASE b.state = "INIT" -> "ORIGIN"
    [] b.state = "ORIGIN" -> "DESTINATION"
    [] b.state = "DESTINATION" -> "OUTBOUND_DATE"
    [] b.state = "OUTBOUND_DATE" ->
         IF b.context.trip_type = Some("ONEWAY") THEN "TRAVEL_CLASS"
         ELSE "RETURN_DATE"
    [] b.state = "RETURN_DATE" -> "TRAVEL_CLASS"
    [] b.state = "TRAVEL_CLASS" -> "FLIGHT_SELECTION"
    [] b.state = "FLIGHT_SELECTION" -> "CONFIRMATION"
    [] b.state = "CONFIRMATION" -> "COMPLETE"
    [] OTHER -> b.state

\* Messages and collaborator answers that would make the handlers act
ProbeMessages == {M_yes, M_economy}

ProbeEnvs ==
  {Env(p, s, c, e) :
     p \in {[has_pipeline |-> FALSE, raw_class |-> "booking", max_confidence |-> 0],
            [has_pipeline |-> TRUE, raw_class |-> "confirmation",
             max_confidence |-> 41]},
     s \in {[db_error |-> FALSE, found |-> 2, with_return |-> {2}]},
     c \in {[db_error |-> FALSE, reference |-> "K7Q2ZD"]},
     e \in {FALSE}}

\* process() on booking b changes nothing and calls no collaborator
Inert(b, auth, table) ==
  \A message \in ProbeMessages : \A env \in ProbeEnvs :
    process(b, auth, table, message, env) =
      [b |-> b, auth |-> auth, users |-> table,
       resp |-> Resp(<<"An error occurred in the booking process.">>),
       raised |-> FALSE, ev |-> {}, created |-> None]

\* C26: a message moves a booking to the next state of the order INIT, ORIGIN,
\* DESTINATION, OUTBOUND_DATE, [RETURN_DATE,] TRAVEL_CLASS, FLIGHT_SELECTION,
\* CONFIRMATION, COMPLETE (RETURN_DATE left out for a one-way trip), or to
\* COMPLETE, or leaves the state as it is; a new booking starts from INIT;
\* and process() on a booking that has reached COMPLETE changes neither state
\* nor context and calls no collaborator.
C26_ForwardOnlyStateOrder ==
  [][running' =>
       /\ "new_transaction" \in turn'.ev =>
            /\ current_transaction' # None
            /\ BookingFields'.state = NextState(BookingTransaction_new)
       /\ (HasActive(current_transaction) /\ current_transaction' # None) =>
            BookingFields'.state \in
              {BookingFields.state, NextState(Val(current_transaction))}
       /\ (HasActive(current_transaction) /\ turn'.completed # None) =>
            Val(turn'.completed).context = BookingFields.context
       /\ turn'.completed # None =>
            /\ Val(turn'.completed).state = "COMPLETE"
            /\ current_transaction' = None
            /\ Inert(Val(turn'.completed), auth_service', users')]_vars

\* A one-way booking has gone from OUTBOUND_DATE straight to TRAVEL_CLASS and
\* then, the search finding nothing, to COMPLETE with its context kept.
C26_Witness ==
  /\ Spoke
  /\ turn.state_before = "TRAVEL_CLASS"
  /\ turn.completed # None
  /\ Val(turn.completed).state = "COMPLETE"
  /\ Val(turn.completed).context.trip_type = Some("ONEWAY")
  /\ Val(turn.completed).context.return_date = None
  /\ Val(turn.completed).context.outbound_date # None
  /\ turn.resp.text =
       <<"Sorry, no flights found for your criteria. Please start a new booking.">>
  /\ Inert(Val(turn.completed), auth_service, users)

\* What the transaction answers while it handles authentication
AuthPrompts ==
  {LoginOrRegisterPrompt,
   <<"Let's create an account. Please enter your email:">>,
   <<"Please enter your email to login:">>,
   <<"Please enter your password:">>,
   <<"Please enter your name:">>,
   <<"Invalid email or password", "Please try again with your email:">>,
   <<"Email already registered", "Please try again with your email:">>,
   <<"Registration failed", "Please try again with your email:">>}
  \cup CompletionMessages

\* C27: authentication waits for the confirmation step: a booking holds a
\* sub-flow only at CONFIRMATION with nobody authenticated, and a message
\* that finds the booking in INIT, ORIGIN, DESTINATION, OUTBOUND_DATE,
\* RETURN_DATE, TRAVEL_CLASS or FLIGHT_SELECTION is never answered with an
\* authentication prompt, creates no sub-flow and reaches no sub-flow.
C27_AuthDeferredToConfirmation ==
  /\ SubFlow # None =>
       /\ BookingFields.state = "CONFIRMATION"
       /\ ~is_authenticated(auth_service)
       /\ Val(current_transaction).paused_for_auth
  /\ (current_transaction # None /\ SubFlow = None) =>
       ~Val(current_transaction).paused_for_auth
  /\ (Spoke /\ turn.state_before # "CONFIRMATION") =>
       /\ turn.resp.text \notin AuthPrompts
       /\ turn.ev \cap ({"auth_required", "auth_complete"} \cup AuthFlowEvents) = {}
       /\ SubFlow = None
       /\ ~turn.paused_before
  /\ (Spoke /\ turn.resp.text \in AuthPrompts) =>
       /\ turn.state_before = "CONFIRMATION"
       /\ ~turn.authed_before

\* A flight was selected with nobody logged in: the booking shows its
\* summary at CONFIRMATION and has asked for no authentication so far.
C27_Witness ==
  /\ Spoke
  /\ turn.state_before = "FLIGHT_SELECTION"
  /\ "_handle_flight_selection" \in turn.ev
  /\ AtBookingState("CONFIRMATION")
  /\ ~is_authenticated(auth_service)
  /\ ~Val(current_transaction).paused_for_auth
  /\ turn.resp.text \notin AuthPrompts

\* The slot holds a transaction that has not reached COMPLETE.
Incomplete ==
  /\ current_transaction # None
  /\ Val(current_transaction).state # "COMPLETE"

\* C28: a message has one consumer. With an incomplete transaction in the
\* slot it goes to that transaction: nothing is classified at session level,
\* the factory is not called, and the transaction leaves the slot only by
\* completing (or by an exception that ends the turn), also when the message
\* completes it. Otherwise the message is classified at session level, the
\* factory is called once, and either the one new transaction handles the
\* message in INIT or the clarification is the answer.
C28_OneConsumerPerMessage ==
  [][running' =>
       IF Incomplete
         THEN /\ turn'.branch = "continue"
              /\ turn'.intent = None
              /\ turn'.ev \cap {"create_transaction", "new_transaction"} = {}
              /\ "_handle_init" \notin turn'.ev
              /\ current_transaction' # None =>
                   /\ turn'.completed = None
                   /\ BookingFields'.state # "INIT"
                   /\ BookingFields'.context.trip_type =
                        BookingFields.context.trip_type
              /\ current_transaction' = None =>
                   \/ turn'.escaped
                   \/ /\ turn'.completed # None
                      /\ turn'.cleanups = 1
         ELSE /\ turn'.branch = "classify"
              /\ turn'.intent = Some(turn'.classifies_as)
              /\ "create_transaction" \in turn'.ev
              /\ turn'.completed = None
              /\ turn'.ev \cap BookingHandlerEvents \subseteq {"_handle_init"}
              /\ "new_transaction" \in turn'.ev <=> "_handle_init" \in turn'.ev
              /\ current_transaction' # None <=> "new_transaction" \in turn'.ev
              /\ current_transaction' # None =>
                   /\ turn'.intent = Some("booking")
                   /\ BookingFields'.state = "ORIGIN"
                   /\ BookingFields'.context =
                        [BookingTransaction_new.context EXCEPT
                           !.trip_type = BookingFields'.context.trip_type]
              /\ (current_transaction' = None /\ ~turn'.escaped) =>
                   turn'.resp = _handle_unknown_intent]_vars

\* A message that the classifier takes for 'booking' reaches a booking at
\* CONFIRMATION: the booking's handler answers it, nothing is classified at
\* session level, no transaction is created and the booking stays.
C28_Witness ==
  /\ Spoke
  /\ turn.state_before = "CONFIRMATION"
  /\ turn.authed_before
  /\ turn.classifies_as = "booking"
  /\ turn.branch = "continue"
  /\ turn.intent = None
  /\ "_handle_confirmation" \in turn.ev
  /\ "create_transaction" \notin turn.ev
  /\ AtBookingState("CONFIRMATION")

\* The booking in the slot is paused for authentication.
Paused == SubFlow # None

\* C29: once a booking is paused for authentication, no message, also one
\* the classifier takes for 'cancellation', completes it, takes it out of
\* the slot or brings the session back to intent classification while the
\* user is not authenticated.
C29_PausedUntilAuthenticated ==
  [][(running' /\ Paused /\ ~is_authenticated(auth_service')) =>
       /\ current_transaction' # None
       /\ HasActive(current_transaction')
       /\ turn'.completed = None]_vars

\* C29, exact: once a booking is paused for authentication, a turn that
\* leaves the user unauthenticated keeps the booking in the slot, paused, at
\* CONFIRMATION with its fields as they were, also when the classifier would
\* take the message for 'cancellation'; the one exception is a login the
\* auth collaborator answers with an exception, which leaves process_message
\* and makes the session discard the booking. No paused booking completes
\* in the turn, and a booking completes at CONFIRMATION only in a turn that
\* began with an authenticated user.
C29_PausedUntilAuthenticatedOrAuthError ==
  [][running' =>
       /\ (Paused /\ ~is_authenticated(auth_service')) =>
            IF turn'.escaped
              THEN /\ current_transaction' = None
                   /\ "login" \in turn'.ev
                   /\ turn'.ev \cap {"login_ok", "login_failed"} = {}
                   /\ turn'.completed = None
                   /\ turn'.resp.text = RestartMessage
              ELSE /\ Paused'
                   /\ Val(current_transaction').paused_for_auth
                   /\ BookingFields' = BookingFields
                   /\ BookingFields'.state = "CONFIRMATION"
                   /\ turn'.completed = None
                   /\ "predict" \notin turn'.ev
       /\ Paused =>
            /\ turn'.completed = None
            /\ turn'.branch = "continue"
            /\ ~turn'.escaped => current_transaction' # None
       /\ (turn'.completed # None /\ turn'.state_before = "CONFIRMATION") =>
            /\ turn'.authed_before
            /\ ~turn'.paused_before]_vars

\* 'no', which the classifier takes for 'cancellation', is sent to a booking
\* paused for authentication: the sub-flow takes it for a login request and
\* asks for the email, and the booking stays paused at CONFIRMATION.
C29_Witness ==
  /\ Spoke
  /\ turn.paused_before
  /\ turn.message = Some(M_no)
  /\ turn.classifies_as = "cancellation"
  /\ turn.ev = {"auth_init"}
  /\ Paused
  /\ BookingFields.state = "CONFIRMATION"
  /\ ~is_authenticated(auth_service)

(***************************************************************************)
(* A cooperative user and reliable collaborators                           *)
(***************************************************************************)
\* The collaborators when nothing fails: the classifier has its model, the
\* search finds at least one trip, the database raises nothing. A reply at
\* CONFIRMATION is taken for a confirmation or for neither.
ReliableEnvs ==
  {Env(p, s, c, e) :
     p \in [has_pipeline : {TRUE},
            raw_class : IF Prompt = "SESSION" THEN {"booking", "greeting"}
                        ELSE IF Prompt = "CONFIRMATION"
                          THEN {"confirmation", "greeting"}
                        ELSE {"greeting"},
            max_confidence : {41}],
     s \in IF Prompt = "TRAVEL_CLASS"
            THEN [db_error : {FALSE}, found : {1, NumFlights},
                  with_return : {1..NumFlights}]
            ELSE {[db_error |-> FALSE, found |-> 0, with_return |-> {}]},
     c \in {[db_error |-> FALSE, reference |-> "K7Q2ZD"]},
     e \in {FALSE}}

\* The valid answers to the prompt: for a login the registered email and its
\* password, for a registration an email nobody has registered.
GoodInputs ==
  CASE Prompt = "ORIGIN" -> {M_london}
    [] Prompt = "DESTINATION" -> {M_paris}
    [] Prompt \in {"OUTBOUND_DATE", "RETURN_DATE"} -> {M_future}
    [] Prompt = "TRAVEL_CLASS" -> {M_economy}
    [] Prompt = "FLIGHT_SELECTION" -> {M_1}
    [] Prompt = "CONFIRMATION" -> {M_yes}
    [] Prompt = "INIT" -> {M_login, M_register}
    [] Prompt = "AWAITING_EMAIL" ->
         IF Val(SubFlow).context.action = Some("login") THEN {M_alice}
         ELSE {M_bob}
    [] Prompt = "AWAITING_PASSWORD" -> {M_pw}
    [] Prompt = "AWAITING_NAME" -> {M_name}
    [] OTHER -> {}

\* The sub-flow asks for the password of the registered email, or of a new
\* account.
PasswordWillDo ==
  Prompt = "AWAITING_PASSWORD" =>
    \/ Val(SubFlow).context.action = Some("register")
    \/ Val(SubFlow).context.email = Some(M_alice)

CoopPrompts ==
  {"ORIGIN", "DESTINATION", "OUTBOUND_DATE", "RETURN_DATE", "TRAVEL_CLASS",
   "FLIGHT_SELECTION", "CONFIRMATION", "INIT", "AWAITING_EMAIL",
   "AWAITING_PASSWORD", "AWAITING_NAME"}

\* The user gives a valid answer to prompt p; at CONFIRMATION the reply is
\* taken for a confirmation.
GoodAnswer(p) ==
  /\ running
  /\ HasActive(current_transaction)
  /\ Prompt = p
  /\ PasswordWillDo
  /\ \E raw \in GoodInputs : \E env \in ReliableEnvs :
       /\ Prompt = "CONFIRMATION" => env.predict.raw_class = "confirmation"
       /\ Chat(raw, env)

\* The user gives any answer but the exit word.
AnyAnswer ==
  /\ running
  /\ HasActive(current_transaction)
  /\ \E raw \in UserInputs \ {M_exit} : \E env \in ReliableEnvs : Chat(raw, env)

\* The user says something when no transaction is active.
AnyOpening ==
  /\ running
  /\ ~HasActive(current_transaction)
  /\ \E raw \in UserInputs \ {M_exit} : \E env \in ReliableEnvs : Chat(raw, env)

CoopNext ==
  \/ \E p \in CoopPrompts : GoodAnswer(p)
  \/ AnyAnswer
  \/ AnyOpening

\* The conversation goes on, and a prompt that keeps coming back gets a
\* valid answer in the end.
LiveSpec ==
  /\ Init
  /\ [][CoopNext]_vars
  /\ WF_vars(CoopNext)
  /\ \A p \in CoopPrompts : SF_vars(GoodAnswer(p))

\* C30: with reliable collaborators and a user who in the end answers every
\* prompt validly (the registered email and password included, and a last
\* reply taken for a confirmation), every booking transaction reaches
\* COMPLETE with a booking created, whatever invalid answers and failed
\* logins came first.
C30_CooperativeUserCompletes ==
  (current_transaction # None) ~> (turn.completed # None /\ turn.created # None)

\* C31: authentication lasts for the session. A successful login or
\* register leaves the auth service authenticated, and it stays so, with the
\* same user, in every later turn; from then on no turn creates a sub-flow
\* or reaches one, and a message that finds a booking at CONFIRMATION, the
\* first one of a later booking included, goes to the confirmation handler.
C31_AuthenticationPersists ==
  [][/\ is_authenticated(auth_service) => auth_service' = auth_service
     /\ running' =>
          /\ turn'.ev \cap {"login_ok", "register_ok"} # {} =>
               is_authenticated(auth_service')
          /\ is_authenticated(auth_service) =>
               /\ turn'.authed_before
               /\ turn'.ev \cap ({"auth_required"} \cup AuthFlowEvents) = {}
               /\ turn'.resp.text \notin AuthPrompts
               /\ SubFlow = None
               /\ SubFlow' = None
               /\ (current_transaction # None
                     /\ BookingFields.state = "CONFIRMATION") =>
                    /\ "_handle_confirmation" \in turn'.ev
                    /\ "predict" \in turn'.ev]_vars

\* The user logged in during an earlier booking; a later booking has just
\* had its flight selected and waits at CONFIRMATION with its summary shown,
\* no sub-flow and no pause: the message to come goes to the confirmation
\* handler.
C31_Witness ==
  /\ Spoke
  /\ turn.state_before = "FLIGHT_SELECTION"
  /\ turn.authed_before
  /\ is_authenticated(auth_service)
  /\ AtBookingState("CONFIRMATION")
  /\ ~Val(current_transaction).paused_for_auth
  /\ BookingFields.context.selected_trip # None
  /\ life.cleanups = 0

\* C32: a booking at FLIGHT_SELECTION or CONFIRMATION holds between 1 and
\* MAX_FLIGHTS candidate trips and a travel class that is ECONOMY, BUSINESS
\* or FIRST; at CONFIRMATION the selected trip is one of the candidates and a
\* price is stored.
C32_SelectionDataPresent ==
  current_transaction # None =>
    /\ BookingFields.state \in {"FLIGHT_SELECTION", "CONFIRMATION"} =>
         /\ Len(BookingFields.context.available_trips) \in 1..MAX_FLIGHTS
         /\ BookingFields.context.travel_class # None
         /\ Val(BookingFields.context.travel_class) \in VALID_CLASSES
    /\ BookingFields.state = "CONFIRMATION" =>
         /\ BookingFields.context.selected_trip # None
         /\ Val(BookingFields.context.selected_trip) \in
              Range(BookingFields.context.available_trips)
         /\ BookingFields.context.price # None

\* The database had more matches than MAX_FLIGHTS for a round trip: the
\* booking at CONFIRMATION holds MAX_FLIGHTS candidates, the second of them
\* selected, with its price.
C32_Witness ==
  /\ current_transaction # None
  /\ BookingFields.state = "CONFIRMATION"
  /\ BookingFields.context.trip_type = Some("ROUNDTRIP")
  /\ Len(BookingFields.context.available_trips) = MAX_FLIGHTS
  /\ BookingFields.context.selected_trip =
       Some(BookingFields.context.available_trips[2])
  /\ BookingFields.context.price # None

=============================================================================
